---- MODULE Spec2Model ----
(***************************************************************************)
(* Controller-side provisioning core of the EFS CSI driver:                *)
(*   - AccessPointProvisioner.Provision / Delete  (pkg/driver, access      *)
(*     point mode) together with the GID allocator they consult,           *)
(*   - DirectoryProvisioner.Provision / Delete    (directory mode).        *)
(* Strings are sequences of one-character strings, so that concatenation,  *)
(* strconv.Atoi, path.Join and the volume id codec are computed.           *)
(***************************************************************************)
EXTENDS Integers, Sequences, FiniteSets, TLC

VARIABLES
    pc,                       \* per handler: position inside the running call
    req,                      \* per handler: the request being served
    loc,                      \* per handler: local variables of the call
    result,                   \* per handler: what the call returned
    calls,                    \* per handler: external calls made by the call, in order
    ledger,                   \* GidAllocator: filesystem id -> allocated ids
    accessPoints,             \* remote service: the access points that exist
    nextAp,                   \* remote service: number of access points created so far
    issued,                   \* volume ids returned to the orchestrator
    mounted,                  \* node: mount-point path -> filesystem mounted there
    tmpDirs,                  \* node: temporary mount-point directories that exist
    fsDirs,                   \* backing filesystems: filesystem id -> directories on it
    deleteAccessPointRootDir, \* AccessPointProvisioner configuration
    deleteProvisionedDir,     \* DirectoryProvisioner configuration
    nCalls,                   \* number of calls started so far
    nextUuid,                 \* number of uuids drawn so far
    grants,                   \* history: outstanding grants of the allocator
    everReleased,             \* history: (filesystem id, id) pairs passed to releaseGid
    strayRelease,             \* history: some call released although it had acquired nothing
    ranges,                   \* history: filesystem id -> ids of the ranges passed to getNextGid
    tagStr,                   \* the tag string the driver is configured with
    tagsSplit,                \* parseTagsFromStr: the pairs not yet looked at
    tags,                     \* parseTagsFromStr: the mapping m built so far
    tagPc                     \* parseTagsFromStr: position inside the call

vars == <<pc, req, loc, result, calls, ledger, accessPoints, nextAp, issued,
          mounted, tmpDirs, fsDirs, deleteAccessPointRootDir,
          deleteProvisionedDir, nCalls, nextUuid, grants, everReleased,
          strayRelease, ranges, tagStr, tagsSplit, tags, tagPc>>

tagVars == <<tagStr, tagsSplit, tags, tagPc>>
cfgVars == <<deleteAccessPointRootDir, deleteProvisionedDir, tagVars>>
nodeVars == <<mounted, tmpDirs, fsDirs>>
allocVars == <<ledger, grants, everReleased, strayRelease, ranges>>
cloudVars == <<accessPoints, nextAp>>

-----------------------------------------------------------------------------
(* Bounds *)

MaxCalls == 3

\* the number of calls handled in a run of the directory strategy
MaxDirCalls == 2

Procs == {"h1", "h2"}

-----------------------------------------------------------------------------
(* Strings *)

Str(s) == <<s>>

S_fs1 == <<"f", "1">>
S_fs2 == <<"f", "2">>
FsIds == {S_fs1, S_fs2}

DigitChars == <<"0", "1", "2", "3", "4", "5", "6", "7", "8", "9">>

DigitVal(c) == CHOOSE d \in 0..9 : DigitChars[d + 1] = c

IsDigit(c) == \E d \in 0..9 : DigitChars[d + 1] = c

RECURSIVE Itoa(_)
Itoa(n) == IF n < 10 THEN <<DigitChars[n + 1]>>
           ELSE Itoa(n \div 10) \o <<DigitChars[(n % 10) + 1]>>

RECURSIVE DigitsValue(_)
DigitsValue(s) == IF Len(s) = 0 THEN 0
                  ELSE 10 * DigitsValue(SubSeq(s, 1, Len(s) - 1)) + DigitVal(s[Len(s)])

AllDigits(s) == Len(s) > 0 /\ \A i \in 1..Len(s) : IsDigit(s[i])

\* strconv.Atoi: [ok, n]; an optional sign followed by decimal digits
Atoi(s) ==
    LET body == IF Len(s) > 0 /\ s[1] \in {"-", "+"} THEN Tail(s) ELSE s
    IN IF ~AllDigits(body) THEN [ok |-> FALSE, n |-> 0]
       ELSE IF Len(s) > 0 /\ s[1] = "-" THEN [ok |-> TRUE, n |-> 0 - DigitsValue(body)]
       ELSE [ok |-> TRUE, n |-> DigitsValue(body)]

\* strings.TrimSpace(value) == "", with the mutation that compares value itself with ""
IsBlankOnlyEmpty(s) == s = <<>>

\* strings.TrimSpace(value) == ""
IsBlank(s) == \A i \in 1..Len(s) : s[i] \in {" ", "\t"}

RECURSIVE SplitOn(_, _)
\* strings.Split(s, c) for a one-character separator
SplitOn(s, c) ==
    IF \A i \in 1..Len(s) : s[i] # c THEN <<s>>
    ELSE LET i == CHOOSE k \in 1..Len(s) : s[k] = c /\ \A j \in 1..(k - 1) : s[j] # c
         IN <<SubSeq(s, 1, i - 1)>> \o SplitOn(SubSeq(s, i + 1, Len(s)), c)

RECURSIVE CleanSegments(_, _)
\* the segments of a rooted path with "", "." and ".." resolved
CleanSegments(segs, acc) ==
    IF Len(segs) = 0 THEN acc
    ELSE LET h == Head(segs)
         IN IF h = <<>> \/ h = <<".">> THEN CleanSegments(Tail(segs), acc)
            ELSE IF h = <<".", ".">>
                 THEN CleanSegments(Tail(segs),
                                    IF Len(acc) = 0 THEN acc ELSE SubSeq(acc, 1, Len(acc) - 1))
            ELSE CleanSegments(Tail(segs), Append(acc, h))

RECURSIVE JoinSegments(_)
JoinSegments(segs) ==
    IF Len(segs) = 0 THEN <<>> ELSE <<"/">> \o Head(segs) \o JoinSegments(Tail(segs))

\* the directories a rooted path names, one segment after the other
PathSegments(path) == CleanSegments(SplitOn(path, "/"), <<>>)

\* path.Clean of a rooted path
Clean(path) == IF PathSegments(path) = <<>> THEN <<"/">> ELSE JoinSegments(PathSegments(path))

\* path.Join(a, b)
Join(a, b) == Clean(a \o <<"/">> \o b)

\* segs names prefix itself or something below it
IsUnder(segs, prefix) == Len(prefix) <= Len(segs) /\ SubSeq(segs, 1, Len(prefix)) = prefix

-----------------------------------------------------------------------------
(* Tag parser *)

\* lines 38-53: one step of the loop of extractPairsFromRawString
RECURSIVE PairsFrom(_, _, _, _, _)
PairsFrom(chars, i, accumulator, literal, pairs) ==
    IF i > Len(chars)
    THEN IF accumulator # <<>> THEN Append(pairs, accumulator) ELSE pairs
    ELSE IF chars[i] = "'"
         THEN PairsFrom(chars, i + 1, Append(accumulator, chars[i]), ~literal, pairs)
         ELSE IF chars[i] = " "
              THEN IF literal
                   THEN PairsFrom(chars, i + 1, Append(accumulator, chars[i]), literal, pairs)
                   ELSE PairsFrom(chars, i + 1, <<>>, literal, Append(pairs, accumulator))
              ELSE PairsFrom(chars, i + 1, Append(accumulator, chars[i]), literal, pairs)

\* lines 34-59
extractPairsFromRawString(raw) == PairsFrom(raw, 1, <<>>, FALSE, <<>>)

\* lines 66-83: the loop of extractKeyAndValueFromRawPair; finalKeyIndex is the position
\* of the colon that ends the key, 0 while there is none
RECURSIVE KeyFrom(_, _, _, _)
KeyFrom(chars, i, key, literal) ==
    IF i > Len(chars)
    THEN [key |-> key, literal |-> literal, finalKeyIndex |-> 0]
    ELSE IF chars[i] = "'"
         THEN KeyFrom(chars, i + 1, key, ~literal)
         ELSE IF chars[i] = ":"
              THEN IF literal
                   THEN KeyFrom(chars, i + 1, Append(key, chars[i]), literal)
                   ELSE [key |-> key, literal |-> literal, finalKeyIndex |-> i]
              ELSE KeyFrom(chars, i + 1, Append(key, chars[i]), literal)

\* lines 92-94: one leading single quote is dropped
StripLeadingQuote(value) ==
    IF Len(value) > 0 /\ value[1] = "'" THEN Tail(value) ELSE value

\* lines 95-97: one trailing single quote is dropped
StripTrailingQuote(value) ==
    IF Len(value) > 0 /\ value[Len(value)] = "'" THEN SubSeq(value, 1, Len(value) - 1) ELSE value

\* lines 61-100
extractKeyAndValueFromRawPair(pair) ==
    LET k == KeyFrom(pair, 1, <<>>, FALSE)
    IN IF k.literal
       THEN [key |-> <<>>, value |-> <<>>, err |-> "unmatched quotes in tag string"]
       ELSE IF k.key = <<>>
            THEN [key |-> <<>>, value |-> <<>>, err |-> "cannot have empty key"]
            ELSE [key |-> k.key,
                  value |-> StripTrailingQuote(StripLeadingQuote(
                                SubSeq(pair, k.finalKeyIndex + 1, Len(pair)))),
                  err |-> "nil"]

\* line 29, with the mutation that keeps the entry a key already has
SetTagKeepsFirst(m, k, v) == m @@ (k :> v)

\* line 29: m[k] = v
SetTag(m, k, v) == (k :> v) @@ m

\* lines 16-21: the mapping is made; the empty string is answered at once, any other
\* string is cut into pairs
parseTagsFromStr_Start ==
    /\ tagPc = "start"
    /\ tags' = [k \in {} |-> <<>>]
    /\ IF tagStr = <<>>
       THEN /\ tagPc' = "done"
            /\ tagsSplit' = <<>>
       ELSE /\ tagPc' = "pairs"
            /\ tagsSplit' = extractPairsFromRawString(tagStr)
    /\ UNCHANGED <<pc, req, loc, result, calls, ledger, accessPoints, nextAp, issued,
                   mounted, tmpDirs, fsDirs, deleteAccessPointRootDir,
                   deleteProvisionedDir, nCalls, nextUuid, grants, everReleased,
                   strayRelease, ranges, tagStr>>

\* lines 23-30: one turn of the loop over the pairs
parseTagsFromStr_Pair ==
    /\ tagPc = "pairs"
    /\ tagsSplit # <<>>
    /\ LET kv == extractKeyAndValueFromRawPair(Head(tagsSplit))
       IN tags' = IF kv.err # "nil" THEN tags ELSE SetTag(tags, kv.key, kv.value)
    /\ tagsSplit' = Tail(tagsSplit)
    /\ UNCHANGED <<pc, req, loc, result, calls, ledger, accessPoints, nextAp, issued,
                   mounted, tmpDirs, fsDirs, deleteAccessPointRootDir,
                   deleteProvisionedDir, nCalls, nextUuid, grants, everReleased,
                   strayRelease, ranges, tagStr, tagPc>>

\* line 31: return m
parseTagsFromStr_Return ==
    /\ tagPc = "pairs"
    /\ tagsSplit = <<>>
    /\ tagPc' = "done"
    /\ UNCHANGED <<pc, req, loc, result, calls, ledger, accessPoints, nextAp, issued,
                   mounted, tmpDirs, fsDirs, deleteAccessPointRootDir,
                   deleteProvisionedDir, nCalls, nextUuid, grants, everReleased,
                   strayRelease, ranges, tagStr, tagsSplit, tags>>

-----------------------------------------------------------------------------
(* Parameter and secret keys *)

FsId == "fileSystemId"
Uid == "uid"
Gid == "gid"
GidMin == "gidRangeStart"
GidMax == "gidRangeEnd"
DirectoryPerms == "directoryPerms"
BasePath == "basePath"
AzName == "az"
RoleArn == "awsRoleArn"
MountTargetIp == "mounttargetip"

DefaultGidMin == 50000
DefaultGidMax == 7000000

Has(m, k) == k \in DOMAIN m

NoRequest == [name |-> <<>>, params |-> <<>>, secrets |-> <<>>, volumeId |-> <<>>]

NoLocals == [fs |-> <<>>, uid |-> 0, gid |-> 0, gidMin |-> 0, gidMax |-> 0,
             basePath |-> <<>>, roleArn |-> <<>>, allocatedGid |-> 0,
             acquired |-> FALSE, apId |-> <<>>, rootDir |-> <<>>,
             target |-> <<>>, subpath |-> <<>>, perms |-> 0, deferred |-> <<>>,
             err |-> "nil", volContext |-> <<>>]

NoResult == [code |-> "none", volumeId |-> <<>>]

Ret(code) == [code |-> code, volumeId |-> <<>>]

-----------------------------------------------------------------------------
(* GID allocator: one ledger of allocated ids per filesystem id, every     *)
(* access serialized by the allocator's lock, so each operation is atomic. *)

LedgerOf(l, fsId) == IF fsId \in DOMAIN l THEN l[fsId] ELSE {}

WithLedger(l, fsId, ids) == [f \in (DOMAIN l) \cup {fsId} |-> IF f = fsId THEN ids ELSE l[f]]

RECURSIVE NextFree(_, _, _)
NextFree(allocated, lo, hi) ==
    IF lo > hi THEN 0
    ELSE IF lo \notin allocated THEN lo
    ELSE NextFree(allocated, lo + 1, hi)

\* acquire: the smallest id of [gidMin, gidMax] not allocated for fsId, or RangeExhausted
getNextGid(l, fsId, gidMin, gidMax) ==
    LET gid == NextFree(LedgerOf(l, fsId), gidMin, gidMax)
    IN IF gid = 0
       THEN [ok |-> FALSE, gid |-> 0, ledger |-> WithLedger(l, fsId, LedgerOf(l, fsId))]
       ELSE [ok |-> TRUE, gid |-> gid,
             ledger |-> WithLedger(l, fsId, LedgerOf(l, fsId) \cup {gid})]

\* release, with the mutation that forgets every id of fsId
releaseGidForgetsAll(l, fsId, gid) ==
    IF fsId \in DOMAIN l THEN [l EXCEPT ![fsId] = {}] ELSE l

\* release: marks gid free for fsId; an unallocated gid or unknown fsId is a no-op
releaseGid(l, fsId, gid) ==
    IF fsId \in DOMAIN l THEN [l EXCEPT ![fsId] = @ \ {gid}] ELSE l

(* History of the allocator's grants: (fsId, gid) -> number of grants of gid *)
(* made for fsId and not followed by a release of gid for fsId.              *)
GrantCount(g, fsId, gid) == IF <<fsId, gid>> \in DOMAIN g THEN g[<<fsId, gid>>] ELSE 0

WithGrant(g, fsId, gid, n) ==
    [k \in (DOMAIN g) \cup {<<fsId, gid>>} |-> IF k = <<fsId, gid>> THEN n ELSE g[k]]

RangesOf(r, fsId) == IF fsId \in DOMAIN r THEN r[fsId] ELSE {}

-----------------------------------------------------------------------------
(* Bookkeeping shared by the handlers *)

Call(name, arg, ok) == [call |-> name, arg |-> arg, ok |-> ok]

Called(p, name) == \E i \in 1..Len(calls[p]) : calls[p][i].call = name

CalledOk(p, name) == \E i \in 1..Len(calls[p]) : calls[p][i].call = name /\ calls[p][i].ok

CalledWith(p, name, arg) ==
    \E i \in 1..Len(calls[p]) : calls[p][i].call = name /\ calls[p][i].arg = arg

CallCount(p, name) == Cardinality({i \in 1..Len(calls[p]) : calls[p][i].call = name})

\* position of the first call `name` with argument `arg` in the log of p, 0 when absent
FirstIndex(p, name, arg) ==
    LET at == {i \in 1..Len(calls[p]) : calls[p][i].call = name /\ calls[p][i].arg = arg}
    IN IF at = {} THEN 0 ELSE CHOOSE i \in at : \A j \in at : i <= j

CloudErrors == {"ErrAccessDenied", "ErrNotFound", "ErrAlreadyExists", "ErrOther"}

TempMountPathPrefix == <<"/", "t">>

-----------------------------------------------------------------------------
(* AccessPointProvisioner.Provision *)

\* lines 212-245, with the mutation that lets the range end equal the range start
ValidateGidRangeAllowsEqual(ps) ==
    LET lo == IF Has(ps, GidMin) THEN Atoi(ps[GidMin]) ELSE [ok |-> TRUE, n |-> 0]
        hi == IF Has(ps, GidMax) THEN Atoi(ps[GidMax]) ELSE [ok |-> TRUE, n |-> 0]
        bad == [ok |-> FALSE, gidMin |-> 0, gidMax |-> 0]
    IN IF Has(ps, GidMin) /\ (~lo.ok \/ lo.n <= 0) THEN bad
       ELSE IF Has(ps, GidMax) /\ (lo.n = 0 \/ ~hi.ok \/ hi.n < lo.n) THEN bad
       ELSE IF ~Has(ps, GidMax) /\ lo.n # 0 THEN bad
       ELSE [ok |-> TRUE,
             gidMin |-> IF lo.n = 0 /\ hi.n = 0 THEN DefaultGidMin ELSE lo.n,
             gidMax |-> IF lo.n = 0 /\ hi.n = 0 THEN DefaultGidMax ELSE hi.n]

\* lines 212-245: the gid range of the request, or the built-in pair: [ok, gidMin, gidMax]
ValidateGidRange(ps) ==
    LET lo == IF Has(ps, GidMin) THEN Atoi(ps[GidMin]) ELSE [ok |-> TRUE, n |-> 0]
        hi == IF Has(ps, GidMax) THEN Atoi(ps[GidMax]) ELSE [ok |-> TRUE, n |-> 0]
        bad == [ok |-> FALSE, gidMin |-> 0, gidMax |-> 0]
    IN IF Has(ps, GidMin) /\ (~lo.ok \/ lo.n <= 0) THEN bad
       ELSE IF Has(ps, GidMax) /\ (lo.n = 0 \/ ~hi.ok \/ hi.n <= lo.n) THEN bad
       ELSE IF ~Has(ps, GidMax) /\ lo.n # 0 THEN bad
       ELSE [ok |-> TRUE,
             gidMin |-> IF lo.n = 0 /\ hi.n = 0 THEN DefaultGidMin ELSE lo.n,
             gidMax |-> IF lo.n = 0 /\ hi.n = 0 THEN DefaultGidMax ELSE hi.n]

\* parameter validation and defaults: the first return of the function, or the locals
ValidateAccessPointRequest(r) ==
    LET ps == r.params
        u == IF Has(ps, Uid) THEN Atoi(ps[Uid]) ELSE [ok |-> TRUE, n |-> -1]
        g == IF Has(ps, Gid) THEN Atoi(ps[Gid]) ELSE [ok |-> TRUE, n |-> -1]
        range == ValidateGidRange(ps)
        bad == [code |-> "InvalidArgument", loc |-> NoLocals]
    IN IF r.name = <<>> THEN bad
       ELSE IF ~Has(ps, FsId) THEN bad
       ELSE IF IsBlank(ps[FsId]) THEN bad
       ELSE IF Has(ps, Uid) /\ (~u.ok \/ u.n < 0) THEN bad
       ELSE IF Has(ps, Gid) /\ (~g.ok \/ u.n < 0) THEN bad
       ELSE IF ~range.ok THEN bad
       ELSE [code |-> "OK",
             loc |-> [NoLocals EXCEPT
                        !.fs = ps[FsId],
                        !.uid = u.n,
                        !.gid = g.n,
                        !.gidMin = range.gidMin,
                        !.gidMax = range.gidMax,
                        !.basePath = IF Has(ps, BasePath) THEN ps[BasePath] ELSE <<>>]]

\* a getCloud that never looks at the secrets
RoleOfIgnoresSecrets(secrets) == <<>>

\* getCloud: the role of the secrets, "" when none is given
RoleOf(secrets) == IF Has(secrets, RoleArn) THEN secrets[RoleArn] ELSE <<>>

Finish(p, res) ==
    /\ pc' = [pc EXCEPT ![p] = "done"]
    /\ result' = [result EXCEPT ![p] = res]

\* lines 142-262: a request arrives and its parameters are validated
APProvision_Validate(p, r) ==
    /\ pc[p] = "idle"
    /\ nCalls < MaxCalls
    /\ nCalls' = nCalls + 1
    /\ req' = [req EXCEPT ![p] = r]
    /\ calls' = [calls EXCEPT ![p] = <<>>]
    /\ LET v == ValidateAccessPointRequest(r)
       IN IF v.code # "OK"
          THEN /\ Finish(p, Ret(v.code))
               /\ loc' = [loc EXCEPT ![p] = NoLocals]
          ELSE /\ pc' = [pc EXCEPT ![p] = "ap_getCloud"]
               /\ loc' = [loc EXCEPT ![p] = v.loc]
               /\ result' = [result EXCEPT ![p] = NoResult]
    /\ UNCHANGED <<allocVars, cloudVars, nodeVars, cfgVars, issued, nextUuid>>

\* lines 264-267: the client of the call, role-scoped when a role secret is given
APProvision_GetCloud(p, ok) ==
    /\ pc[p] = "ap_getCloud"
    /\ LET role == RoleOf(req[p].secrets)
       IN IF role # <<>>
          THEN /\ calls' = [calls EXCEPT ![p] = Append(@, Call("NewCloudWithRole", role, ok))]
               /\ IF ok
                  THEN /\ pc' = [pc EXCEPT ![p] = "ap_describeFs"]
                       /\ loc' = [loc EXCEPT ![p].roleArn = role]
                       /\ UNCHANGED result
                  ELSE /\ Finish(p, Ret("Unauthenticated"))
                       /\ UNCHANGED loc
          ELSE /\ ok
               /\ pc' = [pc EXCEPT ![p] = "ap_describeFs"]
               /\ UNCHANGED <<loc, result, calls>>
    /\ UNCHANGED <<req, allocVars, cloudVars, nodeVars, cfgVars, issued, nCalls, nextUuid>>

\* a Provision that reports every failure of DescribeFileSystem as Internal
DescribeFileSystemCodeAlwaysInternal(e) == "Internal"

\* lines 271-277: what Provision returns for the error of DescribeFileSystem
DescribeFileSystemCode(e) ==
    CASE e = "ErrAccessDenied" -> "Unauthenticated"
      [] e = "ErrNotFound" -> "InvalidArgument"
      [] OTHER -> "Internal"

\* a Provision that asks again when DescribeFileSystem failed
APProvision_DescribeFileSystemRetrying(p, e) ==
    /\ pc[p] = "ap_describeFs"
    /\ calls' = [calls EXCEPT ![p] = Append(@, Call("DescribeFileSystem", loc[p].fs, e = "nil"))]
    /\ loc' = [loc EXCEPT ![p].err = e]
    /\ IF e = "nil"
       THEN pc' = [pc EXCEPT ![p] = "ap_alloc"]
       ELSE IF CallCount(p, "DescribeFileSystem") < 2
       THEN UNCHANGED pc
       ELSE pc' = [pc EXCEPT ![p] = "done"]
    /\ result' = IF e # "nil" /\ CallCount(p, "DescribeFileSystem") >= 2
                 THEN [result EXCEPT ![p] = Ret(DescribeFileSystemCode(e))]
                 ELSE result
    /\ UNCHANGED <<req, allocVars, cloudVars, nodeVars, cfgVars, issued, nCalls, nextUuid>>

\* lines 269-278: the filesystem must exist
APProvision_DescribeFileSystem(p, e) ==
    /\ pc[p] = "ap_describeFs"
    /\ calls' = [calls EXCEPT ![p] = Append(@, Call("DescribeFileSystem", loc[p].fs, e = "nil"))]
    /\ loc' = [loc EXCEPT ![p].err = e]
    /\ IF e = "nil"
       THEN /\ pc' = [pc EXCEPT ![p] = "ap_alloc"]
            /\ UNCHANGED result
       ELSE Finish(p, Ret(DescribeFileSystemCode(e)))
    /\ UNCHANGED <<req, allocVars, cloudVars, nodeVars, cfgVars, issued, nCalls, nextUuid>>

\* line 281: the allocator is consulted when uid or gid is missing
NeedsGid(l) == l.uid = -1 \/ l.gid = -1

CallGetNextGidWiderRange(l, c) == getNextGid(l, c.fs, c.gidMin, c.gidMax + 1)

CallGetNextGidAboveMin(l, c) == getNextGid(l, c.fs, c.gidMin + 1, c.gidMax)

\* line 282: a.gidAllocator.getNextGid(accessPointsOptions.FileSystemId, gidMin, gidMax)
CallGetNextGid(l, c) == getNextGid(l, c.fs, c.gidMin, c.gidMax)

\* lines 287-292, with the mutation that leaves a missing id as it is
FillMissingKeeps(id, allocatedGid) == id

\* lines 287-292: if uid == -1 { uid = allocatedGid }, and the same for gid
FillMissing(id, allocatedGid) == IF id = -1 THEN allocatedGid ELSE id

\* lines 280-292: allocate an id and fill the missing uid and gid with it
APProvision_Allocate(p) ==
    /\ pc[p] = "ap_alloc"
    /\ IF NeedsGid(loc[p])
       THEN LET r == CallGetNextGid(ledger, loc[p])
                fs == loc[p].fs
            IN /\ ledger' = r.ledger
               /\ calls' = [calls EXCEPT ![p] = Append(@, Call("getNextGid", fs, r.ok))]
               /\ ranges' = [f \in (DOMAIN ranges) \cup {fs} |->
                               IF f = fs
                               THEN RangesOf(ranges, fs) \cup {<<loc[p].gidMin, loc[p].gidMax>>}
                               ELSE ranges[f]]
               /\ IF r.ok
                  THEN /\ loc' = [loc EXCEPT ![p].allocatedGid = r.gid,
                                             ![p].acquired = TRUE,
                                             ![p].uid = FillMissing(@, r.gid),
                                             ![p].gid = FillMissing(@, r.gid)]
                       /\ grants' = WithGrant(grants, fs, r.gid, GrantCount(grants, fs, r.gid) + 1)
                       /\ pc' = [pc EXCEPT ![p] = "ap_create"]
                       /\ UNCHANGED result
                  ELSE /\ Finish(p, Ret("ResourceExhausted"))
                       /\ UNCHANGED <<loc, grants>>
               /\ UNCHANGED <<everReleased, strayRelease>>
       ELSE /\ pc' = [pc EXCEPT ![p] = "ap_create"]
            /\ UNCHANGED <<loc, allocVars, calls, result>>
    /\ UNCHANGED <<req, cloudVars, nodeVars, cfgVars, issued, nCalls, nextUuid>>

\* the id the remote service gives to its n-th access point
AccessPointId(n) == <<"a">> \o Itoa(n)

\* line 327, with the mutation that writes one colon
AccessPointVolumeIdOneColon(fsId, apId) == fsId \o <<":">> \o apId

\* line 327: the access-point form of the volume id
AccessPointVolumeId(fsId, apId) == fsId \o <<":", ":">> \o apId

\* lines 294-301 and 313-330: create the access point, owned by uid and gid
APProvision_CreateAccessPoint(p, e) ==
    /\ pc[p] = "ap_create"
    /\ LET rootDir == loc[p].basePath \o <<"/">> \o req[p].name
           apId == AccessPointId(nextAp + 1)
       IN /\ calls' = [calls EXCEPT ![p] = Append(@, Call("CreateAccessPoint", req[p].name, e = "nil"))]
          /\ IF e = "nil"
             THEN /\ accessPoints' = accessPoints \cup
                        {[id |-> apId, fs |-> loc[p].fs, uid |-> loc[p].uid,
                          gid |-> loc[p].gid, rootDir |-> rootDir,
                          allocated |-> IF loc[p].acquired THEN loc[p].allocatedGid ELSE 0]}
                  /\ nextAp' = nextAp + 1
                  /\ loc' = [loc EXCEPT ![p].apId = apId, ![p].rootDir = rootDir]
                  /\ IF loc[p].roleArn # <<>>
                     THEN /\ pc' = [pc EXCEPT ![p] = "ap_mountTargets"]
                          /\ UNCHANGED <<result, issued>>
                     ELSE /\ Finish(p, [code |-> "OK",
                                        volumeId |-> AccessPointVolumeId(loc[p].fs, apId)])
                          /\ issued' = issued \cup {AccessPointVolumeId(loc[p].fs, apId)}
             ELSE /\ pc' = [pc EXCEPT ![p] = "ap_release"]
                  /\ loc' = [loc EXCEPT ![p].rootDir = rootDir, ![p].err = e]
                  /\ UNCHANGED <<cloudVars, result, issued>>
    /\ UNCHANGED <<req, allocVars, nodeVars, cfgVars, nCalls, nextUuid>>

ReleaseOnCreateFailureSkipped(l, c) == l

ReleasedGidIsUid(c) == c.uid

\* line 303: the id handed to releaseGid is gid
ReleasedGid(c) == c.gid

\* line 303: a.gidAllocator.releaseGid(accessPointsOptions.FileSystemId, gid)
ReleaseOnCreateFailure(l, c) == releaseGid(l, c.fs, ReleasedGid(c))

\* lines 302-311: CreateAccessPoint failed: release, then report the error
APProvision_Release(p) ==
    /\ pc[p] = "ap_release"
    /\ LET fs == loc[p].fs
           gid == ReleasedGid(loc[p])
       IN /\ ledger' = ReleaseOnCreateFailure(ledger, loc[p])
          /\ calls' = [calls EXCEPT ![p] = Append(@, Call("releaseGid", fs, TRUE))]
          /\ grants' = IF <<fs, gid>> \in DOMAIN grants THEN WithGrant(grants, fs, gid, 0)
                       ELSE grants
          /\ everReleased' = everReleased \cup {<<fs, gid>>}
          /\ strayRelease' = (strayRelease \/ ~loc[p].acquired)
    /\ Finish(p, Ret(CASE loc[p].err = "ErrAccessDenied" -> "Unauthenticated"
                       [] loc[p].err = "ErrAlreadyExists" -> "AlreadyExists"
                       [] OTHER -> "Internal"))
    /\ UNCHANGED <<req, loc, ranges, cloudVars, nodeVars, cfgVars, issued, nCalls, nextUuid>>

\* the address DescribeMountTargets answers with
IPAddress == Str("i")

\* a Provision that gives up when the mount target is not found
APProvision_DescribeMountTargetsOrFail(p, ok) ==
    /\ pc[p] = "ap_mountTargets"
    /\ calls' = [calls EXCEPT ![p] = Append(@, Call("DescribeMountTargets", loc[p].fs, ok))]
    /\ IF ok
       THEN /\ loc' = [loc EXCEPT ![p].volContext = (MountTargetIp :> IPAddress)]
            /\ Finish(p, [code |-> "OK", volumeId |-> AccessPointVolumeId(loc[p].fs, loc[p].apId)])
            /\ issued' = issued \cup {AccessPointVolumeId(loc[p].fs, loc[p].apId)}
       ELSE /\ Finish(p, Ret("Internal"))
            /\ UNCHANGED <<loc, issued>>
    /\ UNCHANGED <<req, allocVars, cloudVars, nodeVars, cfgVars, nCalls, nextUuid>>

\* lines 313-330: cross-account: the mount target address, best effort; the volume context
\* holds the address when one was found
APProvision_DescribeMountTargets(p, ok) ==
    /\ pc[p] = "ap_mountTargets"
    /\ calls' = [calls EXCEPT ![p] = Append(@, Call("DescribeMountTargets", loc[p].fs, ok))]
    /\ loc' = [loc EXCEPT ![p].volContext = IF ok THEN (MountTargetIp :> IPAddress) ELSE @]
    /\ Finish(p, [code |-> "OK", volumeId |-> AccessPointVolumeId(loc[p].fs, loc[p].apId)])
    /\ issued' = issued \cup {AccessPointVolumeId(loc[p].fs, loc[p].apId)}
    /\ UNCHANGED <<req, allocVars, cloudVars, nodeVars, cfgVars, nCalls, nextUuid>>

\* the handler hands its answer to the caller and is free for the next request
Return(p) ==
    /\ pc[p] = "done"
    /\ pc' = [pc EXCEPT ![p] = "idle"]
    /\ req' = [req EXCEPT ![p] = NoRequest]
    /\ loc' = [loc EXCEPT ![p] = NoLocals]
    /\ result' = [result EXCEPT ![p] = NoResult]
    /\ calls' = [calls EXCEPT ![p] = <<>>]
    /\ UNCHANGED <<allocVars, cloudVars, nodeVars, cfgVars, issued, nCalls, nextUuid>>

-----------------------------------------------------------------------------
(* Volume id codec *)

\* decode: <fs>::<accessPointId> or <fs>:<subPath>; the field that does not apply is empty
parseVolumeId(v) ==
    LET tokens == SplitOn(v, ":")
        rest == SubSeq(v, Len(tokens[1]) + 2, Len(v))
    IN IF Len(tokens) = 1
       THEN [fs |-> v, subpath |-> <<>>, apId |-> <<>>]
       ELSE IF Len(rest) > 0 /\ rest[1] = ":"
            THEN [fs |-> tokens[1], subpath |-> <<>>, apId |-> Tail(rest)]
            ELSE [fs |-> tokens[1], subpath |-> rest, apId |-> <<>>]

-----------------------------------------------------------------------------
(* The node: mounts, temporary directories and what is on the filesystems *)

MountAt(m, target, fsId) ==
    [t \in (DOMAIN m) \cup {target} |-> IF t = target THEN fsId ELSE m[t]]

UnmountAt(m, target) == [t \in (DOMAIN m) \ {target} |-> m[t]]

\* a directory d of filesystem f is removed when some mount shows it at or below path
DirsAfterRemoveAll(dirs, m, path) ==
    [f \in DOMAIN dirs |->
        {d \in dirs[f] :
            ~\E t \in DOMAIN m :
                m[t] = f /\ IsUnder(PathSegments(t) \o d, PathSegments(path))}]

\* a temporary directory at or below path is removed unless a filesystem is mounted on it
TmpAfterRemoveAll(tmp, m, path) ==
    {t \in tmp : t \in DOMAIN m \/ ~IsUnder(PathSegments(t), PathSegments(path))}

\* os.MkdirAll(path): the directory appears on the filesystem mounted above it
DirsAfterMkDirAll(dirs, m, path) ==
    [f \in DOMAIN dirs |->
        dirs[f] \cup
        {SubSeq(PathSegments(path), Len(PathSegments(t)) + 1, Len(PathSegments(path))) :
            t \in {u \in DOMAIN m : m[u] = f /\ IsUnder(PathSegments(path), PathSegments(u))
                                    /\ Len(PathSegments(path)) > Len(PathSegments(u))}}]

-----------------------------------------------------------------------------
(* AccessPointProvisioner.Delete *)

ApIdsOf(aps) == {a.id : a \in aps}

\* lines 332-338: a delete request arrives; client of the call, then the volume id is decoded
APDelete_GetCloud(p, r, ok) ==
    /\ pc[p] = "idle"
    /\ nCalls < MaxCalls
    /\ nCalls' = nCalls + 1
    /\ req' = [req EXCEPT ![p] = r]
    /\ LET role == RoleOf(r.secrets)
           v == parseVolumeId(r.volumeId)
       IN /\ calls' = [calls EXCEPT ![p] =
                         IF role # <<>> THEN <<Call("NewCloudWithRole", role, ok)>> ELSE <<>>]
          /\ role = <<>> => ok
          /\ IF ok
             THEN /\ loc' = [loc EXCEPT ![p] = [NoLocals EXCEPT !.fs = v.fs, !.apId = v.apId,
                                                               !.roleArn = role]]
                  /\ pc' = [pc EXCEPT ![p] = IF deleteAccessPointRootDir
                                             THEN "apd_describeAp" ELSE "apd_deleteAp"]
                  /\ result' = [result EXCEPT ![p] = NoResult]
             ELSE /\ loc' = [loc EXCEPT ![p] = NoLocals]
                  /\ Finish(p, Ret("Unauthenticated"))
    /\ UNCHANGED <<allocVars, cloudVars, nodeVars, cfgVars, issued, nextUuid>>

\* lines 344-353: what Delete returns for the error of DescribeAccessPoint
DescribeAccessPointCode(e) ==
    CASE e = "ErrAccessDenied" -> "Unauthenticated"
      [] e = "ErrNotFound" -> "OK"
      [] OTHER -> "Internal"

\* lines 343-353: the access point must exist; a missing one is already deleted
APDelete_DescribeAccessPoint(p, e) ==
    /\ pc[p] = "apd_describeAp"
    /\ (e = "nil") => loc[p].apId \in ApIdsOf(accessPoints)
    /\ (e = "ErrNotFound") => loc[p].apId \notin ApIdsOf(accessPoints)
    /\ calls' = [calls EXCEPT ![p] = Append(@, Call("DescribeAccessPoint", loc[p].apId, e = "nil"))]
    /\ IF e = "nil"
       THEN LET ap == CHOOSE a \in accessPoints : a.id = loc[p].apId
            IN /\ loc' = [loc EXCEPT ![p].rootDir = ap.rootDir]
               /\ pc' = [pc EXCEPT ![p] = IF loc[p].roleArn # <<>>
                                          THEN "apd_mountTargets" ELSE "apd_makeDir"]
               /\ UNCHANGED result
       ELSE /\ Finish(p, Ret(DescribeAccessPointCode(e)))
            /\ loc' = [loc EXCEPT ![p].err = e]
    /\ UNCHANGED <<req, allocVars, cloudVars, nodeVars, cfgVars, issued, nCalls, nextUuid>>

\* lines 356-365: cross-account: the mount target address is a mount option, best effort
APDelete_DescribeMountTargets(p, ok) ==
    /\ pc[p] = "apd_mountTargets"
    /\ calls' = [calls EXCEPT ![p] = Append(@, Call("DescribeMountTargets", loc[p].fs, ok))]
    /\ pc' = [pc EXCEPT ![p] = "apd_makeDir"]
    /\ UNCHANGED <<req, loc, result, allocVars, cloudVars, nodeVars, cfgVars, issued,
                   nCalls, nextUuid>>

\* lines 367-370: the temporary mount-point is named after the access point
APDelete_MakeDir(p, ok) ==
    /\ pc[p] = "apd_makeDir"
    /\ LET target == TempMountPathPrefix \o <<"/">> \o loc[p].apId
       IN /\ calls' = [calls EXCEPT ![p] = Append(@, Call("MakeDir", target, ok))]
          /\ loc' = [loc EXCEPT ![p].target = target]
          /\ IF ok
             THEN /\ tmpDirs' = tmpDirs \cup {target}
                  /\ pc' = [pc EXCEPT ![p] = "apd_mount"]
                  /\ UNCHANGED result
             ELSE /\ Finish(p, Ret("Internal"))
                  /\ UNCHANGED tmpDirs
    /\ UNCHANGED <<req, allocVars, cloudVars, mounted, fsDirs, cfgVars, issued, nCalls,
                   nextUuid>>

\* lines 371-374: mount the filesystem root; on failure os.Remove(target), result ignored
APDelete_Mount(p, ok, removed) ==
    /\ pc[p] = "apd_mount"
    /\ LET target == loc[p].target
       IN IF ok
          THEN /\ removed
               /\ calls' = [calls EXCEPT ![p] = Append(@, Call("Mount", target, TRUE))]
               /\ mounted' = MountAt(mounted, target, loc[p].fs)
               /\ pc' = [pc EXCEPT ![p] = "apd_removeRoot"]
               /\ UNCHANGED <<result, tmpDirs>>
          ELSE /\ calls' = [calls EXCEPT ![p] =
                              @ \o <<Call("Mount", target, FALSE), Call("Remove", target, removed)>>]
               /\ tmpDirs' = IF removed /\ target \notin DOMAIN mounted
                             THEN tmpDirs \ {target} ELSE tmpDirs
               /\ Finish(p, Ret("Internal"))
               /\ UNCHANGED mounted
    /\ UNCHANGED <<req, loc, allocVars, cloudVars, fsDirs, cfgVars, issued, nCalls, nextUuid>>

\* lines 375-378: os.RemoveAll(target + accessPoint.AccessPointRootDir)
APDelete_RemoveRootDir(p, ok) ==
    /\ pc[p] = "apd_removeRoot"
    /\ LET path == loc[p].target \o loc[p].rootDir
       IN /\ calls' = [calls EXCEPT ![p] = Append(@, Call("RemoveAll", path, ok))]
          /\ IF ok
             THEN /\ fsDirs' = DirsAfterRemoveAll(fsDirs, mounted, path)
                  /\ tmpDirs' = TmpAfterRemoveAll(tmpDirs, mounted, path)
                  /\ pc' = [pc EXCEPT ![p] = "apd_unmount"]
                  /\ UNCHANGED result
             ELSE /\ Finish(p, Ret("Internal"))
                  /\ UNCHANGED <<fsDirs, tmpDirs>>
    /\ UNCHANGED <<req, loc, allocVars, cloudVars, mounted, cfgVars, issued, nCalls, nextUuid>>

\* lines 379-382: a.mounter.Unmount(target)
APDelete_Unmount(p, ok) ==
    /\ pc[p] = "apd_unmount"
    /\ calls' = [calls EXCEPT ![p] = Append(@, Call("Unmount", loc[p].target, ok))]
    /\ IF ok
       THEN /\ mounted' = UnmountAt(mounted, loc[p].target)
            /\ pc' = [pc EXCEPT ![p] = "apd_removeTarget"]
            /\ UNCHANGED result
       ELSE /\ Finish(p, Ret("Internal"))
            /\ UNCHANGED mounted
    /\ UNCHANGED <<req, loc, allocVars, cloudVars, tmpDirs, fsDirs, cfgVars, issued, nCalls,
                   nextUuid>>

\* lines 383-386: os.RemoveAll(target)
APDelete_RemoveTarget(p, ok) ==
    /\ pc[p] = "apd_removeTarget"
    /\ calls' = [calls EXCEPT ![p] = Append(@, Call("RemoveAll", loc[p].target, ok))]
    /\ IF ok
       THEN /\ fsDirs' = DirsAfterRemoveAll(fsDirs, mounted, loc[p].target)
            /\ tmpDirs' = TmpAfterRemoveAll(tmpDirs, mounted, loc[p].target)
            /\ pc' = [pc EXCEPT ![p] = "apd_deleteAp"]
            /\ UNCHANGED result
       ELSE /\ Finish(p, Ret("Internal"))
            /\ UNCHANGED <<fsDirs, tmpDirs>>
    /\ UNCHANGED <<req, loc, allocVars, cloudVars, mounted, cfgVars, issued, nCalls, nextUuid>>

\* lines 390-401, with the mutation that reports a missing access point as a failure
DeleteAccessPointCodeNotFoundFails(e) ==
    CASE e = "nil" -> "OK"
      [] e = "ErrAccessDenied" -> "Unauthenticated"
      [] OTHER -> "Internal"

\* a Delete that reports only denied access
DeleteAccessPointCodeOnlyDenied(e) ==
    CASE e = "ErrAccessDenied" -> "Unauthenticated"
      [] OTHER -> "OK"

\* lines 390-401: what Delete returns for the error of DeleteAccessPoint
DeleteAccessPointCode(e) ==
    CASE e = "nil" -> "OK"
      [] e = "ErrAccessDenied" -> "Unauthenticated"
      [] e = "ErrNotFound" -> "OK"
      [] OTHER -> "Internal"

\* lines 389-401: delete the access point; a missing one is already deleted
APDelete_DeleteAccessPoint(p, e) ==
    /\ pc[p] = "apd_deleteAp"
    /\ (e = "nil") => loc[p].apId \in ApIdsOf(accessPoints)
    /\ (e = "ErrNotFound") => loc[p].apId \notin ApIdsOf(accessPoints)
    /\ calls' = [calls EXCEPT ![p] = Append(@, Call("DeleteAccessPoint", loc[p].apId, e = "nil"))]
    /\ accessPoints' = IF e = "nil" THEN {a \in accessPoints : a.id # loc[p].apId}
                       ELSE accessPoints
    /\ Finish(p, Ret(DeleteAccessPointCode(e)))
    /\ loc' = [loc EXCEPT ![p].err = e]
    /\ UNCHANGED <<req, nextAp, allocVars, nodeVars, cfgVars, issued, nCalls, nextUuid>>

-----------------------------------------------------------------------------
(* DirectoryProvisioner.Provision *)

RECURSIVE OctalValue(_)
OctalValue(s) == IF Len(s) = 0 THEN 0
                 ELSE 8 * OctalValue(SubSeq(s, 1, Len(s) - 1)) + DigitVal(s[Len(s)])

\* strconv.ParseUint(value, 8, 32): [ok, n]; numerals of up to ten octal digits, all of
\* which are below 2^32
ParseOctal(s) ==
    IF Len(s) > 0 /\ Len(s) <= 10
                  /\ (\A i \in 1..Len(s) : IsDigit(s[i]) /\ DigitVal(s[i]) < 8)
    THEN [ok |-> TRUE, n |-> OctalValue(s)]
    ELSE [ok |-> FALSE, n |-> 0]

\* os.FileMode(0755)
DefaultPerms == 493

\* a Provision that never reads the permissions of the request
PermsOfAlwaysDefault(params) == DefaultPerms

\* lines 66-73: the mode of the directory
PermsOf(params) ==
    IF Has(params, DirectoryPerms) /\ ParseOctal(params[DirectoryPerms]).ok
    THEN ParseOctal(params[DirectoryPerms]).n
    ELSE DefaultPerms

\* the temporary mount-point of the n-th uuid
UuidTarget(n) == TempMountPathPrefix \o <<"/", "u">> \o Itoa(n)

\* line 97: the directory form of the volume id
DirectoryVolumeId(fsId, provisionedPath) == fsId \o <<":">> \o provisionedPath

\* lines 26-44: a create request arrives with the uid and gid resolved by the controller
DirProvision_Validate(p, r, uid, gid, ok) ==
    /\ pc[p] = "idle"
    /\ nCalls < MaxDirCalls
    /\ nCalls' = nCalls + 1
    /\ req' = [req EXCEPT ![p] = r]
    /\ LET role == RoleOf(r.secrets)
           valid == Has(r.params, FsId) /\ ~IsBlank(r.params[FsId])
       IN /\ (~valid \/ role = <<>>) => ok
          /\ calls' = [calls EXCEPT ![p] =
                         IF valid /\ role # <<>> THEN <<Call("NewCloudWithRole", role, ok)>>
                         ELSE <<>>]
          /\ IF ~valid
             THEN /\ Finish(p, Ret("InvalidArgument"))
                  /\ loc' = [loc EXCEPT ![p] = NoLocals]
             ELSE IF ~ok
             THEN /\ Finish(p, Ret("Unauthenticated"))
                  /\ loc' = [loc EXCEPT ![p] = [NoLocals EXCEPT !.fs = r.params[FsId]]]
             ELSE /\ pc' = [pc EXCEPT ![p] = "dp_mountOptions"]
                  /\ loc' = [loc EXCEPT ![p] = [NoLocals EXCEPT !.fs = r.params[FsId],
                                                                !.uid = uid, !.gid = gid,
                                                                !.roleArn = role]]
                  /\ result' = [result EXCEPT ![p] = NoResult]
    /\ UNCHANGED <<allocVars, cloudVars, nodeVars, cfgVars, issued, nextUuid>>

\* lines 46-49: the mount options; the address of a mount target is added when one is found
DirProvision_GetMountOptions(p, ok) ==
    /\ pc[p] = "dp_mountOptions"
    /\ IF loc[p].roleArn # <<>>
       THEN calls' = [calls EXCEPT ![p] = Append(@, Call("DescribeMountTargets", loc[p].fs, ok))]
       ELSE ok /\ UNCHANGED calls
    /\ pc' = [pc EXCEPT ![p] = "dp_makeDir"]
    /\ UNCHANGED <<req, loc, result, allocVars, cloudVars, nodeVars, cfgVars, issued,
                   nCalls, nextUuid>>

\* lines 50-53: a fresh temporary mount-point
DirProvision_MakeDir(p, ok) ==
    /\ pc[p] = "dp_makeDir"
    /\ nextUuid' = nextUuid + 1
    /\ LET target == UuidTarget(nextUuid + 1)
       IN /\ calls' = [calls EXCEPT ![p] = Append(@, Call("MakeDir", target, ok))]
          /\ loc' = [loc EXCEPT ![p].target = target]
          /\ IF ok
             THEN /\ tmpDirs' = tmpDirs \cup {target}
                  /\ pc' = [pc EXCEPT ![p] = "dp_mount"]
                  /\ UNCHANGED result
             ELSE /\ Finish(p, Ret("Internal"))
                  /\ UNCHANGED tmpDirs
    /\ UNCHANGED <<req, allocVars, cloudVars, mounted, fsDirs, cfgVars, issued, nCalls>>

\* lines 54 and 82-84: mount the root of the filesystem
DirProvision_Mount(p, ok) ==
    /\ pc[p] = "dp_mount"
    /\ calls' = [calls EXCEPT ![p] = Append(@, Call("Mount", loc[p].target, ok))]
    /\ IF ok
       THEN /\ mounted' = MountAt(mounted, loc[p].target, loc[p].fs)
            /\ pc' = [pc EXCEPT ![p] = "dp_mkdir"]
            /\ UNCHANGED result
       ELSE /\ Finish(p, Ret("Internal"))
            /\ UNCHANGED mounted
    /\ UNCHANGED <<req, loc, allocVars, cloudVars, tmpDirs, fsDirs, cfgVars, issued, nCalls,
                   nextUuid>>

\* lines 55-81: create the directory basePath/name below the mount-point
DirProvision_MkDirAllWithPerms(p, ok) ==
    /\ pc[p] = "dp_mkdir"
    /\ LET basePath == IF Has(req[p].params, BasePath) THEN req[p].params[BasePath] ELSE <<>>
           provisionedPath == basePath \o <<"/">> \o req[p].name
           provisionedDirectory == Join(loc[p].target, provisionedPath)
       IN /\ calls' = [calls EXCEPT ![p] =
                         Append(@, Call("MkDirAllWithPerms", provisionedDirectory, ok))]
          /\ loc' = [loc EXCEPT ![p].basePath = basePath,
                                ![p].subpath = provisionedPath,
                                ![p].perms = PermsOf(req[p].params)]
          /\ IF ok
             THEN /\ fsDirs' = DirsAfterMkDirAll(fsDirs, mounted, provisionedDirectory)
                  /\ pc' = [pc EXCEPT ![p] = "dp_unmount"]
                  /\ UNCHANGED result
             ELSE /\ Finish(p, Ret("Internal"))
                  /\ UNCHANGED fsDirs
    /\ UNCHANGED <<req, allocVars, cloudVars, mounted, tmpDirs, cfgVars, issued, nCalls,
                   nextUuid>>

\* lines 86-89, with the mutation that goes on after a failed Unmount
DirProvision_UnmountIgnoringFailure(p, ok) ==
    /\ pc[p] = "dp_unmount"
    /\ calls' = [calls EXCEPT ![p] = Append(@, Call("Unmount", loc[p].target, ok))]
    /\ mounted' = IF ok THEN UnmountAt(mounted, loc[p].target) ELSE mounted
    /\ pc' = [pc EXCEPT ![p] = "dp_removeTarget"]
    /\ UNCHANGED <<req, loc, result, allocVars, cloudVars, tmpDirs, fsDirs, cfgVars, issued,
                   nCalls, nextUuid>>

\* lines 86-89: d.mounter.Unmount(target)
DirProvision_Unmount(p, ok) ==
    /\ pc[p] = "dp_unmount"
    /\ calls' = [calls EXCEPT ![p] = Append(@, Call("Unmount", loc[p].target, ok))]
    /\ IF ok
       THEN /\ mounted' = UnmountAt(mounted, loc[p].target)
            /\ pc' = [pc EXCEPT ![p] = "dp_removeTarget"]
            /\ UNCHANGED result
       ELSE /\ Finish(p, Ret("Internal"))
            /\ UNCHANGED mounted
    /\ UNCHANGED <<req, loc, allocVars, cloudVars, tmpDirs, fsDirs, cfgVars, issued, nCalls,
                   nextUuid>>

\* lines 90-99: d.osClient.RemoveAll(target), then the volume is returned
DirProvision_RemoveTarget(p, ok) ==
    /\ pc[p] = "dp_removeTarget"
    /\ calls' = [calls EXCEPT ![p] = Append(@, Call("RemoveAll", loc[p].target, ok))]
    /\ IF ok
       THEN /\ fsDirs' = DirsAfterRemoveAll(fsDirs, mounted, loc[p].target)
            /\ tmpDirs' = TmpAfterRemoveAll(tmpDirs, mounted, loc[p].target)
            /\ Finish(p, [code |-> "OK",
                          volumeId |-> DirectoryVolumeId(loc[p].fs, loc[p].subpath)])
            /\ issued' = issued \cup {DirectoryVolumeId(loc[p].fs, loc[p].subpath)}
       ELSE /\ Finish(p, Ret("Internal"))
            /\ UNCHANGED <<fsDirs, tmpDirs, issued>>
    /\ UNCHANGED <<req, loc, allocVars, cloudVars, mounted, cfgVars, nCalls, nextUuid>>

-----------------------------------------------------------------------------
(* DirectoryProvisioner.Delete *)

\* lines 103-105, with the mutation that never retains
RetainsDirectoryNever == FALSE

\* lines 103-105: !d.deleteProvisionedDir
RetainsDirectory == ~deleteProvisionedDir

\* lines 102-111: a delete request arrives; nothing is done when directories are retained
DirDelete_Start(p, r, ok) ==
    /\ pc[p] = "idle"
    /\ nCalls < MaxDirCalls
    /\ nCalls' = nCalls + 1
    /\ req' = [req EXCEPT ![p] = r]
    /\ LET role == RoleOf(r.secrets)
           v == parseVolumeId(r.volumeId)
       IN /\ (RetainsDirectory \/ role = <<>>) => ok
          /\ calls' = [calls EXCEPT ![p] =
                         IF ~RetainsDirectory /\ role # <<>>
                         THEN <<Call("NewCloudWithRole", role, ok)>> ELSE <<>>]
          /\ IF RetainsDirectory
             THEN /\ Finish(p, Ret("OK"))
                  /\ loc' = [loc EXCEPT ![p] = NoLocals]
             ELSE IF ~ok
             THEN /\ Finish(p, Ret("Unauthenticated"))
                  /\ loc' = [loc EXCEPT ![p] = [NoLocals EXCEPT !.fs = v.fs, !.subpath = v.subpath]]
             ELSE /\ pc' = [pc EXCEPT ![p] = "dd_mountOptions"]
                  /\ loc' = [loc EXCEPT ![p] = [NoLocals EXCEPT !.fs = v.fs, !.subpath = v.subpath,
                                                                !.roleArn = role]]
                  /\ result' = [result EXCEPT ![p] = NoResult]
    /\ UNCHANGED <<allocVars, cloudVars, nodeVars, cfgVars, issued, nextUuid>>

\* lines 113-116: the mount options; the address of a mount target is added when one is found
DirDelete_GetMountOptions(p, ok) ==
    /\ pc[p] = "dd_mountOptions"
    /\ IF loc[p].roleArn # <<>>
       THEN calls' = [calls EXCEPT ![p] = Append(@, Call("DescribeMountTargets", loc[p].fs, ok))]
       ELSE ok /\ UNCHANGED calls
    /\ pc' = [pc EXCEPT ![p] = "dd_makeDir"]
    /\ UNCHANGED <<req, loc, result, allocVars, cloudVars, nodeVars, cfgVars, issued,
                   nCalls, nextUuid>>

\* lines 123-133, with the mutation that registers nothing
DeferredCallsNone == <<>>

\* lines 123-133: the deferred calls in the order of their registration
DeferredCalls == <<"Unmount", "RemoveAll">>

\* lines 118-133: a fresh temporary mount-point; then the two deferred calls are registered
DirDelete_MakeDir(p, ok) ==
    /\ pc[p] = "dd_makeDir"
    /\ nextUuid' = nextUuid + 1
    /\ LET target == UuidTarget(nextUuid + 1)
       IN /\ calls' = [calls EXCEPT ![p] = Append(@, Call("MakeDir", target, ok))]
          /\ loc' = [loc EXCEPT ![p].target = target,
                                ![p].deferred = IF ok THEN DeferredCalls ELSE <<>>,
                                ![p].err = IF ok THEN @ ELSE "Could not create dir"]
          /\ IF ok
             THEN /\ tmpDirs' = tmpDirs \cup {target}
                  /\ pc' = [pc EXCEPT ![p] = "dd_mount"]
                  /\ UNCHANGED result
             ELSE /\ Finish(p, Ret("Internal"))
                  /\ UNCHANGED tmpDirs
    /\ UNCHANGED <<req, allocVars, cloudVars, mounted, fsDirs, cfgVars, issued, nCalls>>

\* lines 135-138: mount the root; on failure d.osClient.Remove(target), result ignored,
\* and the function returns through its deferred calls
DirDelete_Mount(p, ok, removed) ==
    /\ pc[p] = "dd_mount"
    /\ LET target == loc[p].target
       IN IF ok
          THEN /\ removed
               /\ calls' = [calls EXCEPT ![p] = Append(@, Call("Mount", target, TRUE))]
               /\ mounted' = MountAt(mounted, target, loc[p].fs)
               /\ pc' = [pc EXCEPT ![p] = "dd_removeDir"]
               /\ UNCHANGED <<loc, tmpDirs>>
          ELSE /\ calls' = [calls EXCEPT ![p] =
                              @ \o <<Call("Mount", target, FALSE), Call("Remove", target, removed)>>]
               /\ tmpDirs' = IF removed /\ target \notin DOMAIN mounted
                             THEN tmpDirs \ {target} ELSE tmpDirs
               /\ loc' = [loc EXCEPT ![p].err = "Could not mount"]
               /\ pc' = [pc EXCEPT ![p] = "dd_deferred"]
               /\ UNCHANGED mounted
    /\ UNCHANGED <<req, result, allocVars, cloudVars, fsDirs, cfgVars, issued, nCalls,
                   nextUuid>>

\* lines 139-143: d.osClient.RemoveAll(target + subpath), then return
DirDelete_RemoveDir(p, ok) ==
    /\ pc[p] = "dd_removeDir"
    /\ LET path == loc[p].target \o loc[p].subpath
       IN /\ calls' = [calls EXCEPT ![p] = Append(@, Call("RemoveAll", path, ok))]
          /\ IF ok
             THEN /\ fsDirs' = DirsAfterRemoveAll(fsDirs, mounted, path)
                  /\ tmpDirs' = TmpAfterRemoveAll(tmpDirs, mounted, path)
                  /\ UNCHANGED loc
             ELSE /\ loc' = [loc EXCEPT ![p].err = "Could not delete directory"]
                  /\ UNCHANGED <<fsDirs, tmpDirs>>
    /\ pc' = [pc EXCEPT ![p] = "dd_deferred"]
    /\ UNCHANGED <<req, result, allocVars, cloudVars, mounted, cfgVars, issued, nCalls,
                   nextUuid>>

\* lines 124-126 and 130-132, with the mutation that keeps an error e already holds
DeferredErrKeepsFirst(e, name, ok) ==
    IF ok \/ e # "nil" THEN e
    ELSE IF name = "Unmount" THEN "Could not unmount" ELSE "Could not delete"

\* lines 124-126 and 130-132: the failure of a deferred call is assigned to e
DeferredErr(e, name, ok) ==
    IF ok THEN e
    ELSE IF name = "Unmount" THEN "Could not unmount" ELSE "Could not delete"

\* lines 123-133: on the way out the deferred call registered last runs first;
\* d.osClient.RemoveAll(target) or d.mounter.Unmount(target), a failure replaces e.
\* The err of the call is the message of the status error that e holds, all of them
\* made with codes.Internal.
DirDelete_RunDeferred(p, ok) ==
    /\ pc[p] = "dd_deferred"
    /\ loc[p].deferred # <<>>
    /\ LET name == loc[p].deferred[Len(loc[p].deferred)]
           target == loc[p].target
       IN /\ calls' = [calls EXCEPT ![p] = Append(@, Call(name, target, ok))]
          /\ loc' = [loc EXCEPT ![p].deferred = SubSeq(@, 1, Len(@) - 1),
                                ![p].err = DeferredErr(@, name, ok)]
          /\ IF name = "Unmount"
             THEN /\ mounted' = IF ok THEN UnmountAt(mounted, target) ELSE mounted
                  /\ UNCHANGED <<fsDirs, tmpDirs>>
             ELSE /\ fsDirs' = IF ok THEN DirsAfterRemoveAll(fsDirs, mounted, target) ELSE fsDirs
                  /\ tmpDirs' = IF ok THEN TmpAfterRemoveAll(tmpDirs, mounted, target) ELSE tmpDirs
                  /\ UNCHANGED mounted
    /\ UNCHANGED <<pc, req, result, allocVars, cloudVars, cfgVars, issued, nCalls, nextUuid>>

\* lines 102 and 137-143: the named result e goes to the caller after the deferred calls
DirDelete_Return(p) ==
    /\ pc[p] = "dd_deferred"
    /\ loc[p].deferred = <<>>
    /\ Finish(p, Ret(IF loc[p].err = "nil" THEN "OK" ELSE "Internal"))
    /\ UNCHANGED <<req, loc, calls, allocVars, cloudVars, nodeVars, cfgVars, issued, nCalls,
                   nextUuid>>

-----------------------------------------------------------------------------
(* Initial state and requests *)

EmptyMap == [k \in {} |-> <<>>]

\* the state after construction, but for the configuration of the two provisioners
Constructed ==
    /\ pc = [p \in Procs |-> "idle"]
    /\ req = [p \in Procs |-> NoRequest]
    /\ loc = [p \in Procs |-> NoLocals]
    /\ result = [p \in Procs |-> NoResult]
    /\ calls = [p \in Procs |-> <<>>]
    /\ ledger = EmptyMap
    /\ accessPoints = {}
    /\ nextAp = 0
    /\ issued = {}
    /\ mounted = EmptyMap
    /\ tmpDirs = {}
    /\ fsDirs = [f \in FsIds |-> {<<Str("k")>>}]
    /\ nCalls = 0
    /\ nextUuid = 0
    /\ grants = EmptyMap
    /\ everReleased = {}
    /\ strayRelease = FALSE
    /\ ranges = EmptyMap

\* the driver built without tags: parseTagsFromStr("") has returned the empty mapping
NoTags ==
    /\ tagStr = <<>>
    /\ tagsSplit = <<>>
    /\ tags = EmptyMap
    /\ tagPc = "done"

\* the driver built with either setting of delete-access-point-root-dir
Init ==
    /\ Constructed
    /\ NoTags
    /\ deleteAccessPointRootDir \in BOOLEAN
    /\ deleteProvisionedDir = FALSE

CreateRequest(name, params, secrets) ==
    [name |-> name, params |-> params, secrets |-> secrets, volumeId |-> <<>>]

DeleteRequest(volumeId, secrets) ==
    [name |-> <<>>, params |-> EmptyMap, secrets |-> secrets, volumeId |-> volumeId]

RangeParams(lo, hi) == (GidMin :> Itoa(lo)) @@ (GidMax :> Itoa(hi))

RoleSecret == (RoleArn :> Str("r"))

\* create requests of the access-point strategy: ranges of two and of three ids, with
\* uid and gid missing, only one of them given, or both given
AccessPointRequests ==
    {CreateRequest(Str("v"), (FsId :> S_fs1) @@ RangeParams(1, 2), EmptyMap),
     CreateRequest(Str("v"), (FsId :> S_fs1) @@ RangeParams(1, 3), EmptyMap),
     CreateRequest(Str("v"), (FsId :> S_fs2) @@ RangeParams(1, 2), EmptyMap),
     CreateRequest(Str("v"), (FsId :> S_fs1) @@ (Uid :> Str("2")) @@ RangeParams(1, 2), EmptyMap),
     CreateRequest(Str("v"), (FsId :> S_fs1) @@ (Gid :> Str("1")) @@ RangeParams(1, 2), EmptyMap),
     CreateRequest(Str("v"), (FsId :> S_fs1) @@ (Uid :> Str("2")) @@ (Gid :> Str("1"))
                              @@ RangeParams(1, 2), EmptyMap),
     CreateRequest(Str("v"), (FsId :> S_fs1) @@ RangeParams(1, 2), RoleSecret)}

AccessPointDeleteRequests ==
    {DeleteRequest(v, EmptyMap) : v \in issued}
    \cup {DeleteRequest(v, RoleSecret) : v \in {w \in issued : parseVolumeId(w).apId = AccessPointId(1)}}

\* answers of the remote service
CreateErrors == {"nil", "ErrAccessDenied", "ErrAlreadyExists", "ErrOther"}

LookupErrors == {"nil", "ErrAccessDenied", "ErrNotFound", "ErrOther"}

\* the answers drawn while handlers run concurrently: success, missing, any other failure
SomeCreateErrors == {"nil", "ErrOther"}

SomeLookupErrors == {"nil", "ErrNotFound", "ErrOther"}

-----------------------------------------------------------------------------
(* Concurrent handlers of the access-point strategy *)

Next ==
    \E p \in Procs :
        \/ \E r \in AccessPointRequests : APProvision_Validate(p, r)
        \/ \E ok \in BOOLEAN : APProvision_GetCloud(p, ok)
        \/ \E e \in SomeCreateErrors : APProvision_DescribeFileSystem(p, e)
        \/ APProvision_Allocate(p)
        \/ \E e \in SomeCreateErrors : APProvision_CreateAccessPoint(p, e)
        \/ APProvision_Release(p)
        \/ \E ok \in BOOLEAN : APProvision_DescribeMountTargets(p, ok)
        \/ \E r \in AccessPointDeleteRequests, ok \in BOOLEAN : APDelete_GetCloud(p, r, ok)
        \/ \E e \in SomeLookupErrors : APDelete_DescribeAccessPoint(p, e)
        \/ \E ok \in BOOLEAN : APDelete_DescribeMountTargets(p, ok)
        \/ \E ok \in BOOLEAN : APDelete_MakeDir(p, ok)
        \/ \E ok \in BOOLEAN, removed \in BOOLEAN : APDelete_Mount(p, ok, removed)
        \/ \E ok \in BOOLEAN : APDelete_RemoveRootDir(p, ok)
        \/ \E ok \in BOOLEAN : APDelete_Unmount(p, ok)
        \/ \E ok \in BOOLEAN : APDelete_RemoveTarget(p, ok)
        \/ \E e \in SomeLookupErrors : APDelete_DeleteAccessPoint(p, e)
        \/ Return(p)

Spec == Init /\ [][Next]_vars

-----------------------------------------------------------------------------
(* One access-point Provision, over well-formed and malformed requests *)

\* the value of a parameter that the request does not carry
Absent == <<"absent">>

Opt(k, v) == IF v = Absent THEN EmptyMap ELSE (k :> v)

\* names, filesystem ids, uids, gids and range ends: missing, blank, zero, negative,
\* not a number, and well-formed
ValidationRequests ==
    {CreateRequest(name, Opt(FsId, fs) @@ Opt(Uid, u) @@ Opt(Gid, g)
                         @@ Opt(GidMin, lo) @@ Opt(GidMax, hi), secrets) :
        name \in {<<>>, Str("v")},
        fs \in {Absent, Str(" "), S_fs1},
        u \in {Absent, Str("2"), Str("0"), <<"-", "1">>, Str("x")},
        g \in {Absent, Str("1"), <<"-", "5">>, <<"-", "1">>, Str("x")},
        lo \in {Absent, Str("1"), Str("2"), Str("0"), <<"-", "1">>, Str("x")},
        hi \in {Absent, Str("2"), Str("1"), Str("x")},
        secrets \in {EmptyMap, RoleSecret}}

\* the handler that serves the call
Validator == "h1"

NextValidate ==
    \/ \E r \in ValidationRequests : APProvision_Validate(Validator, r)
    \/ \E ok \in BOOLEAN : APProvision_GetCloud(Validator, ok)
    \/ \E e \in CreateErrors : APProvision_DescribeFileSystem(Validator, e)
    \/ APProvision_Allocate(Validator)
    \/ \E e \in CreateErrors : APProvision_CreateAccessPoint(Validator, e)
    \/ APProvision_Release(Validator)
    \/ \E ok \in BOOLEAN : APProvision_DescribeMountTargets(Validator, ok)

SpecValidate == Init /\ [][NextValidate]_vars

-----------------------------------------------------------------------------
(* One handler of the access-point strategy, over every answer of the remote service *)

NextDelete ==
    \/ \E r \in AccessPointRequests : APProvision_Validate(Validator, r)
    \/ \E ok \in BOOLEAN : APProvision_GetCloud(Validator, ok)
    \/ \E e \in {"nil"} \cup CloudErrors : APProvision_DescribeFileSystem(Validator, e)
    \/ APProvision_Allocate(Validator)
    \/ \E e \in {"nil"} \cup CloudErrors : APProvision_CreateAccessPoint(Validator, e)
    \/ APProvision_Release(Validator)
    \/ \E ok \in BOOLEAN : APProvision_DescribeMountTargets(Validator, ok)
    \/ \E r \in AccessPointDeleteRequests, ok \in BOOLEAN : APDelete_GetCloud(Validator, r, ok)
    \/ \E e \in LookupErrors : APDelete_DescribeAccessPoint(Validator, e)
    \/ \E ok \in BOOLEAN : APDelete_DescribeMountTargets(Validator, ok)
    \/ \E ok \in BOOLEAN : APDelete_MakeDir(Validator, ok)
    \/ \E ok \in BOOLEAN, removed \in BOOLEAN : APDelete_Mount(Validator, ok, removed)
    \/ \E ok \in BOOLEAN : APDelete_RemoveRootDir(Validator, ok)
    \/ \E ok \in BOOLEAN : APDelete_Unmount(Validator, ok)
    \/ \E ok \in BOOLEAN : APDelete_RemoveTarget(Validator, ok)
    \/ \E e \in LookupErrors : APDelete_DeleteAccessPoint(Validator, e)
    \/ Return(Validator)

SpecDelete == Init /\ [][NextDelete]_vars

-----------------------------------------------------------------------------
(* parseTagsFromStr over tag strings *)

\* the longest tag string made of arbitrary characters
MaxTagLen == 4

\* the longest of two pairs joined by a space
MaxPairLen == 3

TagChars == {"a", "b", ":", "'", " "}

StringsUpTo(n) == UNION {[1..k -> TagChars] : k \in 0..n}

\* the two strings spelled out in the description of the parser
QuotedExample == <<"a", ":", "'", "x", " ", "y", "'", ":", "b", ":", "c">>

PlainExample == <<"a", ":", "b", " ", "c", ":", "d">>

\* every string of up to MaxTagLen characters, every two strings of up to MaxPairLen
\* characters with a space between them, and the two examples
TagStrings ==
    StringsUpTo(MaxTagLen)
    \cup {x \o <<" ">> \o y : x \in StringsUpTo(MaxPairLen), y \in StringsUpTo(MaxPairLen)}
    \cup {QuotedExample, PlainExample}

\* the driver is being built with some tag string
InitTags ==
    /\ Constructed
    /\ deleteAccessPointRootDir = FALSE
    /\ deleteProvisionedDir = FALSE
    /\ tagStr \in TagStrings
    /\ tagsSplit = <<>>
    /\ tags = EmptyMap
    /\ tagPc = "start"

NextTags ==
    \/ parseTagsFromStr_Start
    \/ parseTagsFromStr_Pair
    \/ parseTagsFromStr_Return

SpecTags == InitTags /\ [][NextTags]_vars

-----------------------------------------------------------------------------
(* CreateVolume: the provisioner is looked up by the request's provisioning mode *)

ProvisioningMode == "provisioningMode"

AccessPointMode == <<"e", "f", "s", "-", "a", "p">>

DirectoryMode == <<"e", "f", "s", "-", "d", "i", "r">>

\* the registry built at construction: mode -> provisioner
getProvisioners == (AccessPointMode :> "AccessPointProvisioner")

\* the mode is in the registry: the request goes to the provisioner found there
CreateVolume_Dispatch(p, r) ==
    /\ Has(r.params, ProvisioningMode)
    /\ r.params[ProvisioningMode] \in DOMAIN getProvisioners
    /\ getProvisioners[r.params[ProvisioningMode]] = "AccessPointProvisioner"
    /\ APProvision_Validate(p, r)

\* the mode is not in the registry: the request is refused
CreateVolume_Unsupported(p, r) ==
    /\ pc[p] = "idle"
    /\ nCalls < MaxCalls
    /\ Has(r.params, ProvisioningMode)
    /\ r.params[ProvisioningMode] \notin DOMAIN getProvisioners
    /\ nCalls' = nCalls + 1
    /\ req' = [req EXCEPT ![p] = r]
    /\ calls' = [calls EXCEPT ![p] = <<>>]
    /\ loc' = [loc EXCEPT ![p] = NoLocals]
    /\ Finish(p, Ret("InvalidArgument"))
    /\ UNCHANGED <<allocVars, cloudVars, nodeVars, cfgVars, issued, nextUuid>>

\* create requests of either declared mode and of two modes nobody declared, with and
\* without role
ModeRequests ==
    {CreateRequest(Str("v"), (ProvisioningMode :> m) @@ (FsId :> S_fs1) @@ rp, secrets) :
        m \in {AccessPointMode, DirectoryMode, <<"e", "f", "s", "-", "f", "s">>, Str("x")},
        rp \in {RangeParams(1, 2), (DirectoryPerms :> <<"7", "7", "7">>)},
        secrets \in {EmptyMap, RoleSecret}}

NextCreate ==
    \/ \E r \in ModeRequests : CreateVolume_Dispatch(Validator, r)
    \/ \E r \in ModeRequests : CreateVolume_Unsupported(Validator, r)
    \/ \E ok \in BOOLEAN : APProvision_GetCloud(Validator, ok)
    \/ \E e \in CreateErrors : APProvision_DescribeFileSystem(Validator, e)
    \/ APProvision_Allocate(Validator)
    \/ \E e \in CreateErrors : APProvision_CreateAccessPoint(Validator, e)
    \/ APProvision_Release(Validator)
    \/ \E ok \in BOOLEAN : APProvision_DescribeMountTargets(Validator, ok)
    \/ Return(Validator)

SpecCreate == Init /\ [][NextCreate]_vars

-----------------------------------------------------------------------------
(* Concurrent handlers of the directory strategy *)

\* the driver built with either setting of delete-provisioned-dir
InitDir ==
    /\ Constructed
    /\ NoTags
    /\ deleteProvisionedDir \in BOOLEAN
    /\ deleteAccessPointRootDir = FALSE

\* create requests of the directory strategy: with and without base path, permissions
\* and role; base paths that are rooted, relative, and that begin with a colon; one
\* request with a blank and one without filesystem id
DirectoryRequests ==
    {CreateRequest(Str("v"), (FsId :> S_fs1), EmptyMap),
     CreateRequest(Str("v"), (FsId :> S_fs1) @@ (BasePath :> <<"/", "d">>)
                              @@ (DirectoryPerms :> <<"7", "0", "0">>), EmptyMap),
     CreateRequest(Str("w"), (FsId :> S_fs1) @@ (BasePath :> Str("d"))
                              @@ (DirectoryPerms :> Str("9")), RoleSecret),
     CreateRequest(Str("v"), (FsId :> S_fs1) @@ (BasePath :> <<":", "d">>), EmptyMap),
     CreateRequest(Str("v"), (FsId :> Str(" ")), EmptyMap),
     CreateRequest(Str("v"), EmptyMap, EmptyMap)}

\* the uid and gid the controller passes to Provision
DirectoryOwners == {<<0, 0>>, <<1, 2>>}

\* delete requests: the volumes handed out before, and ids this driver never made
DirectoryDeleteRequests ==
    {DeleteRequest(v, EmptyMap) : v \in issued \cup {S_fs1 \o <<":", "/", "k">>, S_fs1}}
    \cup {DeleteRequest(v, RoleSecret) : v \in issued \cup {S_fs1 \o <<":", "/", "w">>}}

NextDir ==
    \E p \in Procs :
        \/ \E r \in DirectoryRequests, o \in DirectoryOwners, ok \in BOOLEAN :
               DirProvision_Validate(p, r, o[1], o[2], ok)
        \/ \E ok \in BOOLEAN : DirProvision_GetMountOptions(p, ok)
        \/ \E ok \in BOOLEAN : DirProvision_MakeDir(p, ok)
        \/ \E ok \in BOOLEAN : DirProvision_Mount(p, ok)
        \/ \E ok \in BOOLEAN : DirProvision_MkDirAllWithPerms(p, ok)
        \/ \E ok \in BOOLEAN : DirProvision_Unmount(p, ok)
        \/ \E ok \in BOOLEAN : DirProvision_RemoveTarget(p, ok)
        \/ \E r \in DirectoryDeleteRequests, ok \in BOOLEAN : DirDelete_Start(p, r, ok)
        \/ \E ok \in BOOLEAN : DirDelete_GetMountOptions(p, ok)
        \/ \E ok \in BOOLEAN : DirDelete_MakeDir(p, ok)
        \/ \E ok \in BOOLEAN, removed \in BOOLEAN : DirDelete_Mount(p, ok, removed)
        \/ \E ok \in BOOLEAN : DirDelete_RemoveDir(p, ok)
        \/ \E ok \in BOOLEAN : DirDelete_RunDeferred(p, ok)
        \/ DirDelete_Return(p)
        \/ Return(p)

SpecDir == InitDir /\ [][NextDir]_vars

-----------------------------------------------------------------------------
(* One handler serving both strategies, under every configuration *)

InitBoth ==
    /\ Constructed
    /\ NoTags
    /\ deleteAccessPointRootDir \in BOOLEAN
    /\ deleteProvisionedDir \in BOOLEAN

\* a volume id goes to the strategy whose form it decodes to
BothAccessPointDeleteRequests ==
    {r \in AccessPointDeleteRequests : parseVolumeId(r.volumeId).apId # <<>>}

BothDirectoryDeleteRequests ==
    {r \in DirectoryDeleteRequests : parseVolumeId(r.volumeId).apId = <<>>}

NextBoth ==
    \/ \E r \in AccessPointRequests : APProvision_Validate(Validator, r)
    \/ \E ok \in BOOLEAN : APProvision_GetCloud(Validator, ok)
    \/ \E e \in CreateErrors : APProvision_DescribeFileSystem(Validator, e)
    \/ APProvision_Allocate(Validator)
    \/ \E e \in CreateErrors : APProvision_CreateAccessPoint(Validator, e)
    \/ APProvision_Release(Validator)
    \/ \E ok \in BOOLEAN : APProvision_DescribeMountTargets(Validator, ok)
    \/ \E r \in BothAccessPointDeleteRequests, ok \in BOOLEAN :
           APDelete_GetCloud(Validator, r, ok)
    \/ \E e \in LookupErrors : APDelete_DescribeAccessPoint(Validator, e)
    \/ \E ok \in BOOLEAN : APDelete_DescribeMountTargets(Validator, ok)
    \/ \E ok \in BOOLEAN : APDelete_MakeDir(Validator, ok)
    \/ \E ok \in BOOLEAN, removed \in BOOLEAN : APDelete_Mount(Validator, ok, removed)
    \/ \E ok \in BOOLEAN : APDelete_RemoveRootDir(Validator, ok)
    \/ \E ok \in BOOLEAN : APDelete_Unmount(Validator, ok)
    \/ \E ok \in BOOLEAN : APDelete_RemoveTarget(Validator, ok)
    \/ \E e \in LookupErrors : APDelete_DeleteAccessPoint(Validator, e)
    \/ \E r \in DirectoryRequests, o \in DirectoryOwners, ok \in BOOLEAN :
           DirProvision_Validate(Validator, r, o[1], o[2], ok)
    \/ \E ok \in BOOLEAN : DirProvision_GetMountOptions(Validator, ok)
    \/ \E ok \in BOOLEAN : DirProvision_MakeDir(Validator, ok)
    \/ \E ok \in BOOLEAN : DirProvision_Mount(Validator, ok)
    \/ \E ok \in BOOLEAN : DirProvision_MkDirAllWithPerms(Validator, ok)
    \/ \E ok \in BOOLEAN : DirProvision_Unmount(Validator, ok)
    \/ \E ok \in BOOLEAN : DirProvision_RemoveTarget(Validator, ok)
    \/ \E r \in BothDirectoryDeleteRequests, ok \in BOOLEAN :
           DirDelete_Start(Validator, r, ok)
    \/ \E ok \in BOOLEAN : DirDelete_GetMountOptions(Validator, ok)
    \/ \E ok \in BOOLEAN : DirDelete_MakeDir(Validator, ok)
    \/ \E ok \in BOOLEAN, removed \in BOOLEAN : DirDelete_Mount(Validator, ok, removed)
    \/ \E ok \in BOOLEAN : DirDelete_RemoveDir(Validator, ok)
    \/ \E ok \in BOOLEAN : DirDelete_RunDeferred(Validator, ok)
    \/ DirDelete_Return(Validator)
    \/ Return(Validator)

SpecBoth == InitBoth /\ [][NextBoth]_vars

-----------------------------------------------------------------------------
(* Claims about the allocator as the access-point strategy uses it *)

\* the call of handler p was given an id by the allocator and has not given it back
Holding(p) ==
    /\ loc[p].acquired
    /\ \/ pc[p] \in {"ap_create", "ap_release", "ap_mountTargets"}
       \/ pc[p] = "done" /\ result[p].code = "OK"

\* the access points of filesystem fsId that own an allocated id
Owning(fsId) == {a \in accessPoints : a.fs = fsId /\ a.allocated # 0}

\* C1: among calls that each need an allocated identity (no call releases an id it did
\* not acquire), two calls of the same filesystem id never hold the same id at once,
\* whether they are both running or one of them has already created its access point.
C1_NoDoubleAllocation ==
    ~strayRelease =>
        /\ \A p, q \in Procs :
              (p # q /\ Holding(p) /\ Holding(q) /\ loc[p].fs = loc[q].fs)
                  => loc[p].allocatedGid # loc[q].allocatedGid
        /\ \A p \in Procs : \A a \in accessPoints :
              (Holding(p) /\ a \in Owning(loc[p].fs) /\ a.id # loc[p].apId)
                  => a.allocated # loc[p].allocatedGid
        /\ \A a, b \in accessPoints :
              (a.id # b.id /\ a.fs = b.fs /\ a.allocated # 0 /\ b.allocated # 0)
                  => a.allocated # b.allocated

\* two calls for the same filesystem id are past their acquire at the same time
C1_Witness ==
    \E p, q \in Procs :
        /\ p # q
        /\ pc[p] = "ap_create" /\ pc[q] = "ap_create"
        /\ loc[p].acquired /\ loc[q].acquired
        /\ loc[p].fs = loc[q].fs
        /\ ~strayRelease

\* C2: when CreateAccessPoint fails after an id was acquired, the error is returned with
\* that id released: it is free in the ledger and an acquire on the same range succeeds.
C2_ReleasedOnCreateFailure ==
    [][\A p \in Procs :
          (pc[p] = "ap_release" /\ pc'[p] = "done" /\ loc[p].acquired)
              => /\ loc[p].allocatedGid \notin LedgerOf(ledger', loc[p].fs)
                 /\ getNextGid(ledger', loc[p].fs, loc[p].gidMin, loc[p].gidMax).ok]_vars

\* a Provision that acquired an id returned the error of CreateAccessPoint, the id is free
C2_Witness ==
    \E p \in Procs :
        /\ pc[p] = "done"
        /\ loc[p].acquired
        /\ loc[p].err # "nil"
        /\ result[p].code = "Internal"
        /\ loc[p].allocatedGid \notin LedgerOf(ledger, loc[p].fs)

\* C6: once every access point that was created has been deleted successfully and no call
\* is running, every id is free again.
C6_DeleteReleasesIdentity ==
    (accessPoints = {} /\ \A p \in Procs : pc[p] = "idle")
        => \A f \in DOMAIN ledger : ledger[f] = {}

RangeFull(l, fsId, gidMin, gidMax) == \A g \in gidMin..gidMax : g \in LedgerOf(l, fsId)

\* C8: an acquire fails with the resource-exhaustion error exactly when every id of the
\* range is allocated, so after N acquires on a range of N ids with no release the next
\* Provision fails, and no earlier one does.
C8_ExhaustedWhenRangeFull ==
    [][\A p \in Procs :
          (pc[p] = "ap_alloc" /\ pc'[p] # "ap_alloc" /\ NeedsGid(loc[p]))
              => ((pc'[p] = "done" /\ result'[p].code = "ResourceExhausted")
                    <=> RangeFull(ledger, loc[p].fs, loc[p].gidMin, loc[p].gidMax))]_vars

\* the third Provision on a range of two ids failed after two access points were created
C8_Witness ==
    \E p \in Procs :
        /\ pc[p] = "done"
        /\ result[p].code = "ResourceExhausted"
        /\ loc[p].gidMax - loc[p].gidMin + 1 = 2
        /\ Cardinality(Owning(loc[p].fs)) = 2
        /\ everReleased = {}

\* C9: the ids held for a filesystem id are held once each and lie in a range that a
\* caller supplied for that filesystem id.
C9_HeldInRangeNoDuplicates ==
    /\ \A k \in DOMAIN grants : grants[k] <= 1
    /\ \A f \in DOMAIN ledger :
          /\ ledger[f] = {k[2] : k \in {j \in DOMAIN grants : j[1] = f /\ grants[j] = 1}}
          /\ \A g \in ledger[f] : \E r \in RangesOf(ranges, f) : r[1] <= g /\ g <= r[2]

\* two ids are held for one filesystem id after some id was released
C9_Witness ==
    \E f \in DOMAIN ledger : Cardinality(ledger[f]) >= 2 /\ everReleased # {}

\* C10: a successful acquire returns the smallest id of [gidMin, gidMax] that was free.
C10_SmallestFree ==
    [][\A p \in Procs :
          (pc[p] = "ap_alloc" /\ pc'[p] = "ap_create" /\ NeedsGid(loc[p]))
              => LET g == loc'[p].allocatedGid
                     held == LedgerOf(ledger, loc[p].fs)
                 IN /\ loc[p].gidMin <= g /\ g <= loc[p].gidMax
                    /\ g \notin held
                    /\ \A h \in loc[p].gidMin..(g - 1) : h \in held]_vars

\* an id that had been released was handed out again although a larger id is free
C10_Witness ==
    \E p \in Procs :
        /\ pc[p] = "ap_create"
        /\ loc[p].acquired
        /\ <<loc[p].fs, loc[p].allocatedGid>> \in everReleased
        /\ \E h \in (loc[p].allocatedGid + 1)..loc[p].gidMax : h \notin LedgerOf(ledger, loc[p].fs)

-----------------------------------------------------------------------------
(* Claims about the directory strategy *)

\* the call of handler p is a Provision
DirProvisionCall(p) == req[p].name # <<>>

\* the call of handler p is a Delete
DirDeleteCall(p) == req[p].volumeId # <<>>

\* the i-th call of handler p is name(arg)
IsCall(p, i, name, arg) == calls[p][i].call = name /\ calls[p][i].arg = arg

\* C3: a Provision whose mount at the temporary mount-point succeeded has called Unmount
\* of the mount-point and RemoveAll of the mount-point when it returns.
C3_CleanupAfterMount ==
    \A p \in Procs :
        (pc[p] = "done" /\ DirProvisionCall(p) /\ CalledOk(p, "Mount"))
            => /\ CalledWith(p, "Unmount", loc[p].target)
               /\ CalledWith(p, "RemoveAll", loc[p].target)

\* C4: in a Delete of a volume with a sub-path, RemoveAll of the temporary mount-point is
\* called only after Unmount of that mount-point has been called.
C4_RemovalAfterUnmount ==
    \A p \in Procs :
        (DirDeleteCall(p) /\ loc[p].subpath # <<>>)
            => \A i \in 1..Len(calls[p]) :
                  IsCall(p, i, "RemoveAll", loc[p].target)
                      => \E j \in 1..(i - 1) : IsCall(p, j, "Unmount", loc[p].target)

\* right after the successful Mount, the i-th call of handler p was the removal of the
\* provisioned directory, and it failed
FailedRemoveDirAt(p, i) ==
    /\ i > 1
    /\ calls[p][i - 1] = Call("Mount", loc[p].target, TRUE)
    /\ calls[p][i] = Call("RemoveAll", loc[p].target \o loc[p].subpath, FALSE)

\* C5: a Delete whose mount succeeded and whose removal of the provisioned directory
\* failed has, when it returns, called Unmount and RemoveAll of the temporary mount-point
\* after that failure, and it returns an error.
C5_CleanupAfterFailedRemoval ==
    \A p \in Procs :
        (pc[p] = "done" /\ DirDeleteCall(p))
            => \A i \in 1..Len(calls[p]) :
                  FailedRemoveDirAt(p, i)
                      => /\ \E j \in (i + 1)..Len(calls[p]) :
                               IsCall(p, j, "Unmount", loc[p].target)
                         /\ \E k \in (i + 1)..Len(calls[p]) :
                               IsCall(p, k, "RemoveAll", loc[p].target)
                         /\ result[p].code = "Internal"

\* a Delete returned after the removal of the provisioned directory failed while both
\* calls on the temporary mount-point succeeded
C5_Witness ==
    \E p \in Procs :
        /\ pc[p] = "done"
        /\ DirDeleteCall(p)
        /\ \E i \in 1..Len(calls[p]) : FailedRemoveDirAt(p, i)
        /\ \E j \in 1..Len(calls[p]) : calls[p][j] = Call("Unmount", loc[p].target, TRUE)
        /\ \E k \in 1..Len(calls[p]) : calls[p][k] = Call("RemoveAll", loc[p].target, TRUE)

\* C7: with deleteProvisionedDir false, a Delete returns success at once: no call on the
\* mounter, the OS client or the remote service, and nothing on the node changes.
C7_RetainIsNoOp ==
    [][\A p \in Procs :
          (pc[p] = "idle" /\ pc'[p] # "idle" /\ req'[p].volumeId # <<>>
                          /\ ~deleteProvisionedDir)
              => /\ pc'[p] = "done"
                 /\ result'[p] = Ret("OK")
                 /\ calls'[p] = <<>>
                 /\ UNCHANGED <<nodeVars, cloudVars, nextUuid>>]_vars

\* a Delete of a volume that a Provision had returned, with a role in its secrets,
\* returned while directories are retained
C7_Witness ==
    /\ ~deleteProvisionedDir
    /\ \E p \in Procs :
          /\ pc[p] = "done"
          /\ DirDeleteCall(p)
          /\ Has(req[p].secrets, RoleArn)
          /\ req[p].volumeId \in issued

-----------------------------------------------------------------------------
(* Claims about release *)

\* a filesystem id no call ever names
S_fsUnknown == <<"f", "9">>

\* the ledgers l1 and l2 give the same answer to every acquire
SameAcquires(l1, l2) ==
    \A f \in {S_fs1, S_fsUnknown}, r \in {<<1, 2>>, <<1, 3>>, <<2, 3>>} :
        /\ getNextGid(l1, f, r[1], r[2]).ok = getNextGid(l2, f, r[1], r[2]).ok
        /\ getNextGid(l1, f, r[1], r[2]).gid = getNextGid(l2, f, r[1], r[2]).gid

\* the ledgers l1 and l2 hold the same ids for every filesystem id
SameLedger(l1, l2) ==
    \A f \in FsIds \cup {S_fsUnknown} : LedgerOf(l1, f) = LedgerOf(l2, f)

\* C11: releasing an id that is not allocated (never acquired, already released, or of an
\* unknown filesystem id) leaves the ledger and the answers of later acquires as they
\* were; releasing twice is releasing once (both checked on every ledger the allocator
\* comes to hold); and the release that Provision makes after a failed CreateAccessPoint
\* for an id that is not allocated changes nothing.
C11_ReleaseOfFreeIdIsNoOp ==
    [][/\ (ledger' # ledger) =>
             \A f \in FsIds \cup {S_fsUnknown}, g \in 1..3 :
                LET once == releaseGid(ledger', f, g)
                IN /\ SameLedger(releaseGid(once, f, g), once)
                   /\ SameAcquires(releaseGid(once, f, g), once)
                   /\ g \notin LedgerOf(ledger', f)
                         => SameLedger(once, ledger') /\ SameAcquires(once, ledger')
       /\ \A p \in Procs :
             (/\ pc[p] = "ap_release" /\ pc'[p] = "done"
              /\ ReleasedGid(loc[p]) \notin LedgerOf(ledger, loc[p].fs))
                 => /\ SameLedger(ledger', ledger)
                    /\ SameAcquires(ledger', ledger)
                    /\ result'[p].code \in {"Unauthenticated", "AlreadyExists", "Internal"}]_vars

\* a Provision with explicit uid and gid released its gid, which was not allocated, while
\* the allocator held ids of other calls
C11_Witness ==
    \E p \in Procs :
        /\ pc[p] = "done"
        /\ Called(p, "releaseGid")
        /\ ~loc[p].acquired
        /\ loc[p].gid \notin LedgerOf(ledger, loc[p].fs)
        /\ \E f \in DOMAIN ledger : ledger[f] # {}

-----------------------------------------------------------------------------
(* Claims about access-point Provision *)

\* the request of handler p gives a gid range and neither uid nor gid
RangeOnlyRequest(p) ==
    /\ Has(req[p].params, GidMin) /\ Has(req[p].params, GidMax)
    /\ ~Has(req[p].params, Uid) /\ ~Has(req[p].params, Gid)

\* C12: a Provision whose request gives a gid range and neither uid nor gid has, when its
\* access point is created, asked the allocator once, got an id of the requested range,
\* and the access point is created with uid and gid both equal to that id.
C12_AllocatedIdIsUidAndGid ==
    [][\A p \in Procs :
          (/\ pc[p] = "ap_create" /\ pc'[p] \in {"done", "ap_mountTargets"}
           /\ RangeOnlyRequest(p))
              => LET g == loc[p].allocatedGid
                 IN /\ CallCount(p, "getNextGid") = 1
                    /\ loc[p].acquired
                    /\ Atoi(req[p].params[GidMin]).n <= g
                    /\ g <= Atoi(req[p].params[GidMax]).n
                    /\ \E a \in accessPoints' \ accessPoints :
                          /\ a.id = loc'[p].apId
                          /\ a.fs = req[p].params[FsId]
                          /\ a.uid = g /\ a.gid = g]_vars

\* a Provision with a range and neither uid nor gid returned a volume whose access point
\* has the second id of the range as uid and as gid
C12_Witness ==
    \E p \in Procs :
        /\ pc[p] = "done" /\ result[p].code = "OK"
        /\ req[p].name # <<>> /\ RangeOnlyRequest(p)
        /\ loc[p].allocatedGid = 2
        /\ \E a \in accessPoints : a.id = loc[p].apId /\ a.uid = 2 /\ a.gid = 2

-----------------------------------------------------------------------------
(* Claims about the validation of access-point Provision *)

\* the request without the parameters ks
Without(r, ks) == [r EXCEPT !.params = [k \in (DOMAIN r.params) \ ks |-> r.params[k]]]

\* the call of handler p was turned down by validation
RejectedAtValidation(p) ==
    pc[p] = "done" /\ result[p] = Ret("InvalidArgument") /\ calls[p] = <<>>

\* the given id does not parse as an integer or is negative
IdMalformed(ps, k) == Has(ps, k) /\ (~Atoi(ps[k]).ok \/ Atoi(ps[k]).n < 0)

\* C13: of the requests that are accepted when their gid is left out, exactly those whose
\* gid does not parse as an integer or is negative are rejected with InvalidArgument,
\* whatever uid they carry.
C13_GidValidatedLikeUid ==
    \A p \in Procs :
        (pc[p] # "idle" /\ ValidateAccessPointRequest(Without(req[p], {Gid})).code = "OK")
            => (RejectedAtValidation(p) <=> IdMalformed(req[p].params, Gid))

\* both ends given, min > 0 and max > min, or neither end given
RangeAcceptable(ps) ==
    \/ ~Has(ps, GidMin) /\ ~Has(ps, GidMax)
    \/ /\ Has(ps, GidMin) /\ Has(ps, GidMax)
       /\ Atoi(ps[GidMin]).ok /\ Atoi(ps[GidMax]).ok
       /\ Atoi(ps[GidMin]).n > 0
       /\ Atoi(ps[GidMax]).n > Atoi(ps[GidMin]).n

\* C14: of the requests that are accepted when their range is left out, exactly those
\* with both ends given, min > 0 and max > min, or with neither end given, are accepted;
\* the others are rejected with InvalidArgument. An accepted request without range works
\* with the built-in pair, one with a range works with that range.
C14_GidRangeBothOrNeither ==
    \A p \in Procs :
        (pc[p] # "idle"
            /\ ValidateAccessPointRequest(Without(req[p], {GidMin, GidMax})).code = "OK")
            => /\ RejectedAtValidation(p) <=> ~RangeAcceptable(req[p].params)
               /\ (~RejectedAtValidation(p) /\ ~Has(req[p].params, GidMin))
                     => loc[p].gidMin = DefaultGidMin /\ loc[p].gidMax = DefaultGidMax
               /\ (~RejectedAtValidation(p) /\ Has(req[p].params, GidMin))
                     => /\ loc[p].gidMin = Atoi(req[p].params[GidMin]).n
                        /\ loc[p].gidMax = Atoi(req[p].params[GidMax]).n

\* a request without range got the first id of the built-in range
C14_Witness ==
    \E p \in Procs :
        /\ ~Has(req[p].params, GidMin) /\ ~Has(req[p].params, GidMax)
        /\ loc[p].acquired /\ loc[p].allocatedGid = DefaultGidMin
        /\ \E a \in accessPoints : a.gid = DefaultGidMin

\* no name, no or a blank filesystem id, a uid that is no integer or negative, a gid that
\* is no integer, or a range that is not acceptable
Malformed(r) ==
    \/ r.name = <<>>
    \/ ~Has(r.params, FsId)
    \/ \A i \in DOMAIN r.params[FsId] : r.params[FsId][i] = " "
    \/ IdMalformed(r.params, Uid)
    \/ Has(r.params, Gid) /\ ~Atoi(r.params[Gid]).ok
    \/ ~RangeAcceptable(r.params)

\* C15: a Provision that validation turns down returns InvalidArgument without any call
\* on the remote service, the allocator or the mounter and without changing anything;
\* every malformed request is turned down there, so no call is ever made for one.
C15_FailFast ==
    [][\A p \in Procs :
          /\ (pc[p] = "idle" /\ pc'[p] = "done")
                => /\ result'[p] = Ret("InvalidArgument")
                   /\ calls'[p] = <<>>
                   /\ UNCHANGED <<allocVars, cloudVars, nodeVars, issued>>
          /\ (pc[p] = "idle" /\ pc'[p] # "idle" /\ Malformed(req'[p])) => pc'[p] = "done"
          /\ calls'[p] # <<>> => ~Malformed(req'[p])]_vars

\* a request with a name and a range but a blank filesystem id was turned down
C15_Witness ==
    \E p \in Procs :
        /\ RejectedAtValidation(p)
        /\ req[p].name # <<>>
        /\ Has(req[p].params, FsId) /\ req[p].params[FsId] = Str(" ")
        /\ ~Has(req[p].params, Uid) /\ ~Has(req[p].params, Gid)
        /\ RangeAcceptable(req[p].params) /\ Has(req[p].params, GidMin)

-----------------------------------------------------------------------------
(* Claims about access-point Delete and the volume id *)

\* the call of handler p is a Delete of the access-point strategy
APDeleteCall(p) == req[p].volumeId # <<>>

\* C16: a Delete that was answered NotFound, by DescribeAccessPoint or by
\* DeleteAccessPoint, returns success; and a Delete makes or mounts a temporary
\* mount-point only after DescribeAccessPoint found the access point, so a Delete of a
\* volume whose access point is gone mounts nothing.
C16_DeleteIsIdempotent ==
    \A p \in Procs :
        APDeleteCall(p)
            => /\ (pc[p] = "done" /\ loc[p].err = "ErrNotFound") => result[p] = Ret("OK")
               /\ (Called(p, "MakeDir") \/ Called(p, "Mount"))
                     => CalledOk(p, "DescribeAccessPoint")
               /\ (pc[p] = "done" /\ result[p].code = "OK"
                      /\ ~CalledOk(p, "DescribeAccessPoint") /\ ~CalledOk(p, "DeleteAccessPoint"))
                     => loc[p].err = "ErrNotFound" /\ ~Called(p, "Mount")

\* with root-directory deletion configured, the volume of an access point that an
\* earlier Delete removed was deleted again: success after DescribeAccessPoint alone
C16_Witness ==
    \E p \in Procs :
        /\ deleteAccessPointRootDir
        /\ pc[p] = "done" /\ APDeleteCall(p)
        /\ req[p].volumeId \in issued
        /\ loc[p].apId \notin ApIdsOf(accessPoints)
        /\ loc[p].err = "ErrNotFound"
        /\ result[p] = Ret("OK")
        /\ calls[p] = <<Call("DescribeAccessPoint", loc[p].apId, FALSE)>>

\* the call of handler p is between its first and its last step
InFlight(p) == pc[p] \notin {"idle", "done"}

\* C17: two calls that run at the same time never work on the same temporary
\* mount-point.
C17_FreshMountPoints ==
    \A p, q \in Procs :
        (p # q /\ InFlight(p) /\ InFlight(q) /\ loc[p].target # <<>>)
            => loc[p].target # loc[q].target

\* C18: a successful Provision returns <filesystemId>::<accessPointId> of the access
\* point it created; decoding that id gives the filesystem id and the access point id
\* back, with an empty sub-path; and a Delete of a returned id works on the filesystem
\* and the access point that the Provision named.
C18_VolumeIdRoundTrip ==
    \A p \in Procs :
        /\ (pc[p] = "done" /\ req[p].name # <<>> /\ result[p].code = "OK")
              => /\ result[p].volumeId = req[p].params[FsId] \o <<":", ":">> \o loc[p].apId
                 /\ result[p].volumeId \in issued
                 /\ parseVolumeId(result[p].volumeId) =
                       [fs |-> req[p].params[FsId], subpath |-> <<>>, apId |-> loc[p].apId]
                 /\ \A a \in accessPoints : a.id = loc[p].apId => a.fs = req[p].params[FsId]
        /\ (APDeleteCall(p) /\ InFlight(p) /\ req[p].volumeId \in issued)
              => /\ loc[p].fs \o <<":", ":">> \o loc[p].apId = req[p].volumeId
                 /\ loc[p].apId # <<>>
                 /\ \A a \in accessPoints : a.id = loc[p].apId => a.fs = loc[p].fs

\* the volume that a Provision returned is being deleted: the call is about to delete
\* the access point of that volume, which still exists
C18_Witness ==
    \E p \in Procs :
        /\ APDeleteCall(p) /\ pc[p] = "apd_deleteAp"
        /\ req[p].volumeId \in issued
        /\ \E a \in accessPoints :
              a.id = loc[p].apId /\ a.fs = loc[p].fs /\ a.fs = S_fs2

-----------------------------------------------------------------------------
(* Claims about the result of directory Provision *)

\* basePath + "/" + name of the request of handler p
RequestedSubPath(p) ==
    (IF Has(req[p].params, BasePath) THEN req[p].params[BasePath] ELSE <<>>)
        \o <<"/">> \o req[p].name

\* C19: a successful directory Provision returns <filesystemId>:<subPath> with subPath =
\* basePath + "/" + name; the subPath begins with "/", and the id decodes as the
\* directory form with that filesystem id and subPath.
C19_DirectoryVolumeId ==
    \A p \in Procs :
        (pc[p] = "done" /\ DirProvisionCall(p) /\ result[p].code = "OK")
            => /\ result[p].volumeId = req[p].params[FsId] \o <<":">> \o RequestedSubPath(p)
               /\ RequestedSubPath(p)[1] = "/"
               /\ parseVolumeId(result[p].volumeId) =
                     [fs |-> req[p].params[FsId], subpath |-> RequestedSubPath(p),
                      apId |-> <<>>]

\* the calls of directory Provision on the mounter and the OS client
ProvisionSteps == {"MakeDir", "Mount", "MkDirAllWithPerms", "Unmount", "RemoveAll"}

\* some step of the call of handler p failed
SomeStepFailed(p) ==
    \E i \in 1..Len(calls[p]) : calls[p][i].call \in ProvisionSteps /\ ~calls[p][i].ok

\* C20: a directory Provision in which MakeDir, Mount, the directory creation, Unmount or
\* the removal of the temporary mount-point failed returns an Internal error and no
\* volume; a Provision that returns a volume has made all five calls with success.
C20_VolumeOnlyIfAllStepsSucceeded ==
    \A p \in Procs :
        (pc[p] = "done" /\ DirProvisionCall(p))
            => /\ SomeStepFailed(p) => result[p] = Ret("Internal")
               /\ result[p].code # "OK" => result[p].volumeId = <<>>
               /\ result[p].code = "OK"
                     => /\ result[p].volumeId # <<>>
                        /\ \A n \in ProvisionSteps : CalledOk(p, n)
                        /\ ~SomeStepFailed(p)

\* the directory was created on the filesystem, then Unmount failed and the call
\* returned an Internal error
C20_Witness ==
    \E p \in Procs :
        /\ pc[p] = "done" /\ DirProvisionCall(p)
        /\ CalledOk(p, "MkDirAllWithPerms")
        /\ calls[p][Len(calls[p])] = Call("Unmount", loc[p].target, FALSE)
        /\ PathSegments(RequestedSubPath(p)) \in fsDirs[req[p].params[FsId]]
        /\ result[p] = Ret("Internal")

-----------------------------------------------------------------------------
(* Claims about the registry of provisioners *)

\* the call of handler p was refused before any provisioner ran
Refused(p) ==
    pc[p] = "done" /\ result[p] = Ret("InvalidArgument") /\ calls[p] = <<>>

\* C21: both declared modes, access point and directory, are in the registry, so a
\* well-formed create request of either mode is not refused for its mode; a create
\* request whose mode is not in the registry fails without a call on the remote service.
C21_RegistryMapsBothModes ==
    \A p \in Procs :
        (pc[p] # "idle" /\ Has(req[p].params, ProvisioningMode))
            => /\ req[p].params[ProvisioningMode] \in {AccessPointMode, DirectoryMode}
                    => ~Refused(p)
               /\ req[p].params[ProvisioningMode] \notin DOMAIN getProvisioners
                    => Refused(p)

-----------------------------------------------------------------------------
(* Claims about the tag parser *)

\* the tag string has been parsed and the mapping returned
Parsed == tagPc = "done"

\* C22: a value in single quotes may hold a space and ends at its closing quote:
\* the string  a:'x y':b:c  is parsed into the mapping a -> "x y", b -> "c".
C22_QuotedValueEndsAtQuote ==
    (Parsed /\ tagStr = QuotedExample)
        => tags = (Str("a") :> <<"x", " ", "y">>) @@ (Str("b") :> Str("c"))

NoQuote(t) == \A i \in 1..Len(t) : t[i] # "'"

\* the position of the first colon of t, 0 when t has none
ColonAt(t) ==
    LET at == {i \in 1..Len(t) : t[i] = ":"}
    IN IF at = {} THEN 0 ELSE CHOOSE i \in at : \A j \in at : i <= j

\* a token of the form key:value with a key that is not empty
IsPair(t) == ColonAt(t) > 1

KeyOf(t) == SubSeq(t, 1, ColonAt(t) - 1)

ValueOf(t) == SubSeq(t, ColonAt(t) + 1, Len(t))

\* the tokens of a tag string: what stands between its spaces
TokensOf(t) == SplitOn(t, " ")

\* the unquoted key:value tokens of a tag string, by position
PairsAt(t) == {i \in 1..Len(TokensOf(t)) : NoQuote(TokensOf(t)[i]) /\ IsPair(TokensOf(t)[i])}

\* the mapping of the unquoted key:value tokens of t, the last token of a key winning
PairsMapping(t) ==
    LET toks == TokensOf(t)
        last(k) == CHOOSE i \in PairsAt(t) :
                       /\ KeyOf(toks[i]) = k
                       /\ \A j \in PairsAt(t) : KeyOf(toks[j]) = k => j <= i
    IN [k \in {KeyOf(toks[i]) : i \in PairsAt(t)} |-> ValueOf(toks[last(k)])]

\* C23: in a string without quotes, a token without colon or with an empty key gives no
\* entry, and every other token gives its entry: the mapping returned is that of the
\* key:value tokens.
C23_TokenWithoutColonIsDropped ==
    (Parsed /\ NoQuote(tagStr)) => tags = PairsMapping(tagStr)

\* the string has one single quote, and it stands in a key:value token
OneUnterminatedQuote(t) ==
    /\ Cardinality({i \in 1..Len(t) : t[i] = "'"}) = 1
    /\ \A i \in 1..Len(TokensOf(t)) : ~NoQuote(TokensOf(t)[i]) => IsPair(TokensOf(t)[i])

\* C24: when one key:value pair of the string has a single quote that is never closed,
\* every unquoted key:value pair of the string, before or after it, is in the mapping
\* returned.
C24_UnterminatedQuoteSkipsOnePair ==
    (Parsed /\ OneUnterminatedQuote(tagStr))
        => \A i \in PairsAt(tagStr) :
               /\ KeyOf(TokensOf(tagStr)[i]) \in DOMAIN tags
               /\ \E j \in PairsAt(tagStr) :
                      /\ KeyOf(TokensOf(tagStr)[j]) = KeyOf(TokensOf(tagStr)[i])
                      /\ tags[KeyOf(TokensOf(tagStr)[i])] = ValueOf(TokensOf(tagStr)[j])

\* the string is made of unquoted key:value pairs with spaces between them
PlainPairs(t) ==
    /\ NoQuote(t)
    /\ \A i \in 1..Len(TokensOf(t)) : TokensOf(t)[i] # <<>> => IsPair(TokensOf(t)[i])

\* C25: the empty string is parsed into the empty mapping; a string of unquoted
\* key:value pairs separated by spaces is parsed into exactly those pairs, the last
\* occurrence of a repeated key winning; the pairs left to look at are never more than
\* the characters of the string, so the loop ends.
C25_TotalOnWellFormedInput ==
    /\ (Parsed /\ tagStr = <<>>) => tags = EmptyMap
    /\ (Parsed /\ PlainPairs(tagStr)) => tags = PairsMapping(tagStr)
    /\ Len(tagsSplit) <= Len(tagStr)

\* a string of unquoted pairs that gives one key twice with different values has been
\* parsed, and the key has the later value
C25_Witness ==
    /\ Parsed
    /\ PlainPairs(tagStr)
    /\ \E i, j \in PairsAt(tagStr) :
           /\ i < j
           /\ KeyOf(TokensOf(tagStr)[i]) = KeyOf(TokensOf(tagStr)[j])
           /\ ValueOf(TokensOf(tagStr)[i]) # ValueOf(TokensOf(tagStr)[j])
           /\ \A n \in PairsAt(tagStr) : n <= j
           /\ tags[KeyOf(TokensOf(tagStr)[j])] = ValueOf(TokensOf(tagStr)[j])

-----------------------------------------------------------------------------
(* Claims about the errors of directory Delete *)

\* C26: in a directory Delete whose Mount failed, no RemoveAll, of the provisioned
\* directory or of the mount-point, and no Unmount is called after the failed Mount, and
\* the call returns an Internal error.
C26_MountFailureShortCircuits ==
    \A p \in Procs :
        DirDeleteCall(p)
            => \A i \in 1..Len(calls[p]) :
                  calls[p][i] = Call("Mount", loc[p].target, FALSE)
                      => /\ \A j \in (i + 1)..Len(calls[p]) :
                               calls[p][j].call \notin {"RemoveAll", "Unmount"}
                         /\ pc[p] = "done" => result[p] = Ret("Internal")

\* the stages of a directory Delete in the order in which the call goes through them,
\* with the message of the error each gives
DeleteStages ==
    <<[call |-> "MakeDir", sub |-> FALSE, msg |-> "Could not create dir"],
      [call |-> "Mount", sub |-> FALSE, msg |-> "Could not mount"],
      [call |-> "RemoveAll", sub |-> TRUE, msg |-> "Could not delete directory"],
      [call |-> "RemoveAll", sub |-> FALSE, msg |-> "Could not delete"],
      [call |-> "Unmount", sub |-> FALSE, msg |-> "Could not unmount"]>>

\* the argument of stage n in the call of handler p
StageArg(p, n) ==
    IF DeleteStages[n].sub THEN loc[p].target \o loc[p].subpath ELSE loc[p].target

StageOk(p, n) ==
    \E i \in 1..Len(calls[p]) : calls[p][i] = Call(DeleteStages[n].call, StageArg(p, n), TRUE)

StageFailed(p, n) ==
    \E i \in 1..Len(calls[p]) : calls[p][i] = Call(DeleteStages[n].call, StageArg(p, n), FALSE)

-----------------------------------------------------------------------------
(* Claims about the steps of access-point Delete *)

\* the sub-steps of a Delete that removes the root directory, and the deletion itself
SubStepNames == {"DescribeAccessPoint", "MakeDir", "Mount", "RemoveAll", "Unmount"}

IsSubStep(c) == c.call \in SubStepNames \cup {"DeleteAccessPoint"}

\* the sub-steps that the call of handler p has made, in order
SubStepsOf(p) == SelectSeq(calls[p], IsSubStep)

\* the six sub-steps of handler p, all with success, in the order of the description
SubStepsInOrder(p) ==
    <<Call("DescribeAccessPoint", loc[p].apId, TRUE),
      Call("MakeDir", loc[p].target, TRUE),
      Call("Mount", loc[p].target, TRUE),
      Call("RemoveAll", loc[p].target \o loc[p].rootDir, TRUE),
      Call("Unmount", loc[p].target, TRUE),
      Call("RemoveAll", loc[p].target, TRUE)>>

\* C28: with root-directory deletion configured, DeleteAccessPoint is called only after
\* DescribeAccessPoint, MakeDir, Mount, the removal of the root directory, Unmount and the
\* removal of the mount-point succeeded in that order; a sub-step that fails, other than
\* DescribeAccessPoint answering that the access point is missing, is the last one of the
\* call, which returns an Internal error.
C28_DeleteAccessPointLast ==
    \A p \in Procs :
        (APDeleteCall(p) /\ deleteAccessPointRootDir)
            => \A i \in 1..Len(SubStepsOf(p)) :
                  /\ SubStepsOf(p)[i].call = "DeleteAccessPoint"
                        => i = 7 /\ SubSeq(SubStepsOf(p), 1, 6) = SubStepsInOrder(p)
                  /\ (SubStepsOf(p)[i].call \in SubStepNames
                         /\ ~SubStepsOf(p)[i].ok
                         /\ loc[p].err # "ErrNotFound")
                        => /\ i = Len(SubStepsOf(p))
                           /\ pc[p] = "done"
                           /\ result[p] = Ret("Internal")

\* C29: an access-point Delete whose Mount at the temporary mount-point succeeded has
\* called Unmount of that mount-point when it returns, also when the removal of the root
\* directory failed.
C29_UnmountAfterMount ==
    \A p \in Procs :
        (pc[p] = "done" /\ APDeleteCall(p)
            /\ \E i \in 1..Len(calls[p]) : calls[p][i] = Call("Mount", loc[p].target, TRUE))
            => CalledWith(p, "Unmount", loc[p].target)

-----------------------------------------------------------------------------
(* Claims about the identity of the access point *)

\* the call of handler p is a Provision of the access-point strategy
APProvisionCall(p) == pc[p] # "idle" /\ ~APDeleteCall(p)

\* the value of the id parameter k of a request, or the id the allocator gave when the
\* request has no such parameter
GivenOr(p, k) ==
    IF Has(req[p].params, k) THEN Atoi(req[p].params[k]).n ELSE loc[p].allocatedGid

\* C30: a Provision asks the allocator only when its request gives no uid or no gid, and
\* at most once; when it calls CreateAccessPoint with a uid or a gid missing from the
\* request it has acquired an id, the missing ones are that id, and the uid and gid that
\* the request gives are passed as they are.
C30_AllocatorOnlyForMissingIds ==
    \A p \in Procs :
        APProvisionCall(p)
            => /\ Called(p, "getNextGid")
                    => ~Has(req[p].params, Uid) \/ ~Has(req[p].params, Gid)
               /\ CallCount(p, "getNextGid") <= 1
               /\ Called(p, "CreateAccessPoint")
                    => /\ (~Has(req[p].params, Uid) \/ ~Has(req[p].params, Gid))
                            => CalledOk(p, "getNextGid") /\ loc[p].acquired
                       /\ loc[p].uid = GivenOr(p, Uid)
                       /\ loc[p].gid = GivenOr(p, Gid)

-----------------------------------------------------------------------------
(* Claims about the release after a failed CreateAccessPoint *)

\* C31: a Provision that acquired no id, its request giving both uid and gid, leaves the
\* ledger of the allocator as it is when its CreateAccessPoint fails: an id held for
\* another volume of the filesystem stays allocated.
C31_ReleaseOnlyOwnId ==
    [][\A p \in Procs :
          (/\ pc[p] = "ap_release" /\ pc'[p] = "done"
           /\ Has(req[p].params, Uid) /\ Has(req[p].params, Gid)
           /\ ~loc[p].acquired)
              => ledger' = ledger]_vars

-----------------------------------------------------------------------------
(* Claims about the paths of the directory strategy *)

\* what Provision put behind the filesystem id and the colon of a directory volume id
ProvisionedPathOf(v) == SubSeq(v, Len(SplitOn(v, ":")[1]) + 2, Len(v))

\* the i-th call of handler p is the removal of the provisioned directory, which
\* follows the successful Mount
RemoveDirAt(p, i) ==
    /\ i > 1
    /\ calls[p][i - 1] = Call("Mount", loc[p].target, TRUE)
    /\ calls[p][i].call = "RemoveAll"
    /\ calls[p][i].arg = loc[p].target \o loc[p].subpath

\* C32: when a Delete of a volume that a Provision returned removes the provisioned
\* directory, the path it removes, mount-point + decoded sub-path, names the directory
\* that Provision created, join(mount-point, basePath + "/" + name), and that directory
\* is below the mount-point.
C32_DeleteRemovesProvisionedDirectory ==
    \A p \in Procs :
        (DirDeleteCall(p) /\ req[p].volumeId \in issued
            /\ \E i \in 1..Len(calls[p]) : RemoveDirAt(p, i))
            => LET mountPoint == PathSegments(loc[p].target)
                   removed == PathSegments(loc[p].target \o loc[p].subpath)
                   created == PathSegments(Join(loc[p].target,
                                                ProvisionedPathOf(req[p].volumeId)))
               IN /\ removed = created
                  /\ IsUnder(removed, mountPoint)
                  /\ Len(removed) > Len(mountPoint)

\* C33: a directory Provision whose Mount failed has not called MkDirAllWithPerms,
\* returns an Internal error, and has removed the temporary mount-point that its
\* MakeDir created.
C33_MountFailureCleansUp ==
    \A p \in Procs :
        (pc[p] = "done" /\ DirProvisionCall(p)
            /\ \E i \in 1..Len(calls[p]) : calls[p][i] = Call("Mount", loc[p].target, FALSE))
            => /\ ~Called(p, "MkDirAllWithPerms")
               /\ result[p] = Ret("Internal")
               /\ CalledWith(p, "RemoveAll", loc[p].target) \/ CalledWith(p, "Remove", loc[p].target)
               /\ loc[p].target \notin tmpDirs

\* the calls a Delete makes besides the construction of its client
EffectsOf(p) == SelectSeq(calls[p], LAMBDA c : c.call # "NewCloudWithRole")

\* C34: with root-directory deletion not configured, a Delete calls nothing but
\* DeleteAccessPoint, once, for the access point id decoded from the volume id; a Delete
\* that returned with a client has made that call, and it fails when the call failed
\* with anything but NotFound.
C34_PlainDeleteOnlyDeletesAccessPoint ==
    \A p \in Procs :
        (APDeleteCall(p) /\ ~deleteAccessPointRootDir)
            => /\ Len(EffectsOf(p)) <= 1
               /\ \A i \in 1..Len(EffectsOf(p)) :
                     /\ EffectsOf(p)[i].call = "DeleteAccessPoint"
                     /\ EffectsOf(p)[i].arg = parseVolumeId(req[p].volumeId).apId
               /\ (pc[p] = "done" /\ ~(\E i \in 1..Len(calls[p]) :
                                          calls[p][i].call = "NewCloudWithRole" /\ ~calls[p][i].ok))
                     => Len(EffectsOf(p)) = 1
               /\ (pc[p] = "done" /\ Called(p, "DeleteAccessPoint")
                      /\ loc[p].err \notin {"nil", "ErrNotFound"})
                     => result[p].code \in {"Unauthenticated", "Internal"}

\* without root-directory deletion, a Delete failed because DeleteAccessPoint did
C34_Witness ==
    \E p \in Procs :
        /\ ~deleteAccessPointRootDir
        /\ pc[p] = "done" /\ APDeleteCall(p)
        /\ EffectsOf(p) = <<Call("DeleteAccessPoint", parseVolumeId(req[p].volumeId).apId, FALSE)>>
        /\ loc[p].err = "ErrOther"
        /\ result[p] = Ret("Internal")

\* the construction of the role-scoped client failed in the call of handler p
ClientRefused(p) ==
    \E i \in 1..Len(calls[p]) : calls[p][i].call = "NewCloudWithRole" /\ ~calls[p][i].ok

\* the request of handler p carries a role secret
CarriesRole(p) == Has(req[p].secrets, RoleArn) /\ req[p].secrets[RoleArn] # <<>>

\* C35: a call whose role-scoped client could not be constructed has returned
\* Unauthenticated, and that construction is the only call it made: no mounter call, no
\* filesystem call, no allocator acquire, no remote-service call. A call whose request
\* has no role secret constructs no client, and one whose request has a role secret
\* makes no call before the construction.
C35_CredentialsBeforeEffects ==
    \A p \in Procs :
        /\ ClientRefused(p)
              => /\ Len(calls[p]) = 1
                 /\ pc[p] = "done"
                 /\ result[p] = Ret("Unauthenticated")
                 /\ ~loc[p].acquired
        /\ ~CarriesRole(p) => ~Called(p, "NewCloudWithRole")
        /\ (CarriesRole(p) /\ Len(calls[p]) > 0) => calls[p][1].call = "NewCloudWithRole"

\* a directory Delete whose role-scoped client was refused
C35_Witness ==
    \E p \in Procs :
        /\ ClientRefused(p)
        /\ result[p] = Ret("Unauthenticated")
        /\ req[p].volumeId # <<>>
        /\ parseVolumeId(req[p].volumeId).apId = <<>>
        /\ deleteProvisionedDir

\* the resolution of the mount target failed in the call of handler p
MountTargetMissed(p) ==
    \E i \in 1..Len(calls[p]) : calls[p][i].call = "DescribeMountTargets" /\ ~calls[p][i].ok

\* C36: a Provision calls DescribeMountTargets only when its request carries a role
\* secret, and only after its CreateAccessPoint succeeded; a Provision whose
\* DescribeMountTargets failed has returned the volume of the access point it created
\* with an empty volume context, has not called releaseGid, and the id it acquired is
\* still in the ledger.
C36_MountTargetIsBestEffort ==
    \A p \in Procs :
        APProvisionCall(p)
            => /\ \A j \in 1..Len(calls[p]) :
                     calls[p][j].call = "DescribeMountTargets"
                         => /\ CarriesRole(p)
                            /\ \E i \in 1..(j - 1) :
                                  calls[p][i].call = "CreateAccessPoint" /\ calls[p][i].ok
               /\ MountTargetMissed(p)
                     => /\ pc[p] = "done"
                        /\ result[p] = [code |-> "OK",
                                        volumeId |-> AccessPointVolumeId(loc[p].fs, loc[p].apId)]
                        /\ loc[p].volContext = EmptyMap
                        /\ ~Called(p, "releaseGid")
                        /\ loc[p].acquired
                              => loc[p].allocatedGid \in LedgerOf(ledger, loc[p].fs)

\* a cross-account Provision that acquired an id returned its volume although the mount
\* target was not found
C36_Witness ==
    \E p \in Procs :
        /\ APProvisionCall(p) /\ pc[p] = "done"
        /\ MountTargetMissed(p)
        /\ loc[p].acquired
        /\ result[p].code = "OK"
        /\ result[p].volumeId \in issued

\* the last call that handler p made
LastCall(p) == calls[p][Len(calls[p])]

\* C37: a Provision that returned after DescribeFileSystem failed returns
\* Unauthenticated for AccessDenied, InvalidArgument for NotFound and Internal for any
\* other error, and has acquired no id; one that returned after CreateAccessPoint failed
\* returns Unauthenticated for AccessDenied, AlreadyExists for AlreadyExists and Internal
\* for any other error; one that returned because the allocator had no id left returns
\* ResourceExhausted.
C37_RemoteFailuresKeepTheirKind ==
    \A p \in Procs :
        (APProvisionCall(p) /\ pc[p] = "done" /\ Len(calls[p]) > 0)
            => /\ (LastCall(p).call = "DescribeFileSystem" /\ ~LastCall(p).ok)
                     => /\ loc[p].err = "ErrAccessDenied" => result[p] = Ret("Unauthenticated")
                        /\ loc[p].err = "ErrNotFound" => result[p] = Ret("InvalidArgument")
                        /\ loc[p].err \notin {"ErrAccessDenied", "ErrNotFound"}
                              => result[p] = Ret("Internal")
                        /\ ~Called(p, "getNextGid")
                        /\ ~loc[p].acquired
               /\ (Called(p, "CreateAccessPoint") /\ ~CalledOk(p, "CreateAccessPoint"))
                     => /\ loc[p].err = "ErrAccessDenied" => result[p] = Ret("Unauthenticated")
                        /\ loc[p].err = "ErrAlreadyExists" => result[p] = Ret("AlreadyExists")
                        /\ loc[p].err \notin {"ErrAccessDenied", "ErrAlreadyExists"}
                              => result[p] = Ret("Internal")
               /\ (LastCall(p).call = "getNextGid" /\ ~LastCall(p).ok)
                     => result[p] = Ret("ResourceExhausted")

\* a Provision was told that its filesystem does not exist
C37_Witness ==
    \E p \in Procs :
        /\ APProvisionCall(p) /\ pc[p] = "done"
        /\ Len(calls[p]) > 0
        /\ LastCall(p) = Call("DescribeFileSystem", loc[p].fs, FALSE)
        /\ loc[p].err = "ErrNotFound"
        /\ result[p] = Ret("InvalidArgument")

\* the steps that a call of either strategy makes at most once
SingleSteps ==
    {"MakeDir", "Mount", "Unmount", "CreateAccessPoint", "DeleteAccessPoint",
     "DescribeFileSystem", "getNextGid"}

\* C38: in the call that a handler is serving, each of MakeDir, Mount, Unmount,
\* CreateAccessPoint, DeleteAccessPoint, DescribeFileSystem and getNextGid has been
\* called at most once, whether it succeeded or failed.
C38_NoStepIsRetried ==
    \A p \in Procs : \A name \in SingleSteps : CallCount(p, name) <= 1

\* a Provision returned after its one DescribeFileSystem failed
C38_Witness ==
    \E p \in Procs :
        /\ pc[p] = "done"
        /\ result[p].code = "Internal"
        /\ Len(calls[p]) > 0
        /\ LastCall(p) = Call("DescribeFileSystem", loc[p].fs, FALSE)
        /\ CallCount(p, "DescribeFileSystem") = 1

\* the request of handler p names a filesystem
NamesFileSystem(p) == Has(req[p].params, FsId) /\ ~IsBlank(req[p].params[FsId])

\* C39: a directory Provision that has called MkDirAllWithPerms did so with mode 0755
\* when the request gives no permissions or gives a string that is not an octal number,
\* and with the number when it is one (0700 for "700"); and a directory Provision that
\* failed names no filesystem or ended with a call that failed, so none fails for its
\* permissions.
C39_PermsNeverFailProvision ==
    \A p \in Procs :
        DirProvisionCall(p)
            => /\ Called(p, "MkDirAllWithPerms")
                     => LET ps == req[p].params
                        IN /\ ~Has(ps, DirectoryPerms) => loc[p].perms = 493
                           /\ (Has(ps, DirectoryPerms) /\ ~ParseOctal(ps[DirectoryPerms]).ok)
                                 => loc[p].perms = 493
                           /\ (Has(ps, DirectoryPerms) /\ ParseOctal(ps[DirectoryPerms]).ok)
                                 => loc[p].perms = OctalValue(ps[DirectoryPerms])
                           /\ (Has(ps, DirectoryPerms) /\ ps[DirectoryPerms] = <<"7", "0", "0">>)
                                 => loc[p].perms = 448
               /\ (pc[p] = "done" /\ result[p].code # "OK")
                     => \/ ~NamesFileSystem(p)
                        \/ Len(calls[p]) > 0 /\ ~LastCall(p).ok

\* a Provision asked for permissions "9" and returned its volume, made with mode 0755
C39_Witness ==
    \E p \in Procs :
        /\ DirProvisionCall(p) /\ pc[p] = "done"
        /\ Has(req[p].params, DirectoryPerms)
        /\ req[p].params[DirectoryPerms] = Str("9")
        /\ CalledOk(p, "MkDirAllWithPerms")
        /\ loc[p].perms = 493
        /\ result[p].code = "OK"

====
